---------------------------- MODULE Spec2Model ----------------------------
(***************************************************************************)
(* Trial-balance analysis and French 2025 corporate-tax estimation         *)
(* (app/analyzers.py, app/tax/france_2025.py), and of app/main.py the     *)
(* endpoints POST /analyze/trial-balance and POST /analyze/json, throttle  *)
(* and call_openai_with_retry.                                             *)
(*                                                                         *)
(* Numbers.  The code computes on Python floats.  Here every amount is an  *)
(* integer number of model units, `cent` units making 0.01 (one cent), so  *)
(* cent = 1 represents whole cents, cent = 4 quarter cents and             *)
(* cent = 100000 amounts down to 1e-7.  A rate, and every unrounded        *)
(* intermediate value, is an exact fraction [n |-> numerator,              *)
(* d |-> denominator > 0].  Arithmetic is exact: binary floating-point     *)
(* representation error is not modelled.                                   *)
(* round(x, 2) is rounding to the nearest multiple of `cent`, ties to the  *)
(* even multiple, as Python's round does.                                  *)
(*                                                                         *)
(* Optional values (float | None, bool | None) are sequences of length 0   *)
(* (None) or 1.  An account code or a prefix is a sequence of one-         *)
(* character strings.                                                      *)
(***************************************************************************)
EXTENDS Integers, Sequences, FiniteSets, TLC

VARIABLES
    pc,                 \* position of the call being modelled
    cent,               \* model units per 0.01 (fixed during a behaviour)
    table,              \* the caller's input table (analyze_trial_balance)
    df,                 \* the normalized table
    prefixes,           \* prefix_sum's prefix list argument
    params,             \* the loaded configuration document
    turnover,           \* float | None
    profit_before_tax,  \* estimate's profit argument
    total,              \* prefix_sum's return value
    kpi,                \* compute_kpi's KPI
    components,         \* compute_kpi's bucket sums
    tax_dict,           \* France2025TaxEngine.estimate's return value
    vat_balance,        \* compute_vat's return value
    tax,                \* the assembled TaxEstimate
    suggs,              \* suggestions' return value (list of ids)
    warnings,           \* AnalysisResult.warnings
    raised,             \* the exception that ended the call, or None
    file,               \* the upload of the HTTP endpoint (UploadFile)
    response,           \* the status of the HTTP response, or None
    payload,            \* the body of POST /analyze/json
    _last_call,         \* company id -> time of its last accepted call
    now,                \* time.time()
    company_id,         \* the company id of the last /chat request
    max_retries,        \* call_openai_with_retry's argument
    attempt,            \* the loop index of call_openai_with_retry
    backoff,            \* the next wait, in half seconds
    status_code,        \* r.status_code of the last OpenAI response
    sleeps              \* the waits passed to asyncio.sleep so far

vars == <<pc, cent, table, df, prefixes, params, turnover, profit_before_tax,
          total, kpi, components, tax_dict, vat_balance, tax, suggs,
          warnings, raised, file, response, payload, _last_call, now,
          company_id, max_retries, attempt, backoff, status_code, sleeps>>

\* the state of the JSON endpoint and of the chat service (app/main.py)
serviceVars == <<payload, _last_call, now, company_id, max_retries, attempt,
                 backoff, status_code, sleeps>>

----------------------------------------------------------------------------
(* Optional values and exact numbers                                       *)

None == << >>

Some(x) == <<x>>

IsNone(o) == o = << >>

Val(o) == o[1]

\* No request to POST /analyze/json or POST /chat is being served.
ServiceIdle ==
    /\ payload = None /\ _last_call = None /\ now = None
    /\ company_id = None /\ max_retries = None /\ attempt = None
    /\ backoff = None /\ status_code = None
    /\ sleeps = None

Rat(n, d) == [n |-> n, d |-> d]

Abs(x) == IF x < 0 THEN -x ELSE x

Max(a, b) == IF a >= b THEN a ELSE b

Min(a, b) == IF a <= b THEN a ELSE b

RECURSIVE GCD(_, _)
GCD(a, b) == IF b = 0 THEN a ELSE GCD(b, a % b)

LCM(a, b) == (a * b) \div GCD(a, b)

\* The integer nearest to num/den (den > 0), a tie going to the even one.
RoundHalfEven(num, den) ==
    LET q == num \div den
        r == num % den
    IN  IF 2 * r < den THEN q
        ELSE IF 2 * r > den THEN q + 1
        ELSE IF q % 2 = 0 THEN q ELSE q + 1

\* round(x, 2) of the exact value x (a fraction of units): a whole number of
\* cents, returned in units.
Round2(x) == cent * RoundHalfEven(x.n, x.d * cent)

\* A literal amount of the source, written there in currency units.
Euros(x) == x * 100 * cent


\* A decimal literal n/d of the source or of the configuration, in lowest terms.
Frac(n, d) == Rat(n \div GCD(Abs(n), d), d \div GCD(Abs(n), d))

\* dict.get(key, default)
Get(p, key, default) == IF key \in DOMAIN p THEN p[key] ELSE default

----------------------------------------------------------------------------
(* app/tax/france_2025.py                                                  *)

sme_turnover_ceiling_default == 10000000

sme_reduced_threshold_default == 42500

standard_rate_default == Frac(25, 100)

sme_reduced_rate_default == Frac(15, 100)

social_contribution_rate_default == Frac(33, 1000)

social_contribution_turnover_threshold_default == 7630000

social_contribution_allowance_default == 763000

\* A slip: the loss is not clamped.
TaxableProfit_unclamped(pbt) == pbt

\* profit = max(0.0, profit_before_tax)
TaxableProfit(pbt) == Max(0, pbt)

\* A slip: the ceiling compared with < instead of <=.
Eligible_strict(to, p) ==
    IF IsNone(to) THEN None
    ELSE Some(Val(to) < Get(p, "sme_turnover_ceiling",
                            Euros(sme_turnover_ceiling_default)))

\* eligible = None; if turnover is not None: eligible = turnover <= ceiling
Eligible(to, p) ==
    IF IsNone(to) THEN None
    ELSE Some(Val(to) <= Get(p, "sme_turnover_ceiling",
                             Euros(sme_turnover_ceiling_default)))

\* A slip: `if eligible is not False`, an unknown turnover taken as eligible.
ReducedBase_unknown_as_eligible(profit, eligible, p) ==
    IF eligible # Some(FALSE)
    THEN Min(profit, Get(p, "sme_reduced_threshold",
                         Euros(sme_reduced_threshold_default)))
    ELSE 0

\* reduced_base = min(profit, reduced_cap) if (eligible is True) else 0.0
ReducedBase(profit, eligible, p) ==
    IF eligible = Some(TRUE)
    THEN Min(profit, Get(p, "sme_reduced_threshold",
                         Euros(sme_reduced_threshold_default)))
    ELSE 0

\* A slip: the two rates exchanged.
CitOf_rates_swapped(reduced_base, standard_base, reduced_rate, standard_rate) ==
    LET D == LCM(reduced_rate.d, standard_rate.d)
    IN  Rat(reduced_base * standard_rate.n * (D \div standard_rate.d)
              + standard_base * reduced_rate.n * (D \div reduced_rate.d), D)

\* cit = reduced_base * reduced_rate + standard_base * standard_rate, exact
CitOf(reduced_base, standard_base, reduced_rate, standard_rate) ==
    LET D == LCM(reduced_rate.d, standard_rate.d)
    IN  Rat(reduced_base * reduced_rate.n * (D \div reduced_rate.d)
              + standard_base * standard_rate.n * (D \div standard_rate.d), D)

\* A slip: the turnover threshold compared with >= instead of >.
SocialContribution_at_threshold(to, cit, p) ==
    LET sc_rate == Get(p, "social_contribution_rate",
                       social_contribution_rate_default)
        sc_turnover_thr == Get(p, "social_contribution_turnover_threshold",
                       Euros(social_contribution_turnover_threshold_default))
        sc_allowance == Get(p, "social_contribution_allowance",
                       Euros(social_contribution_allowance_default))
    IN  IF /\ ~IsNone(to)
           /\ Val(to) >= sc_turnover_thr
           /\ cit.n > sc_allowance * cit.d
        THEN Rat(sc_rate.n * (cit.n - sc_allowance * cit.d), sc_rate.d * cit.d)
        ELSE Rat(0, 1)

\* A slip: `sc_allowance - cit`, the difference taken the wrong way round.
SocialContribution_reversed(to, cit, p) ==
    LET sc_rate == Get(p, "social_contribution_rate",
                       social_contribution_rate_default)
        sc_turnover_thr == Get(p, "social_contribution_turnover_threshold",
                       Euros(social_contribution_turnover_threshold_default))
        sc_allowance == Get(p, "social_contribution_allowance",
                       Euros(social_contribution_allowance_default))
    IN  IF /\ ~IsNone(to)
           /\ Val(to) > sc_turnover_thr
           /\ cit.n > sc_allowance * cit.d
        THEN Rat(sc_rate.n * (sc_allowance * cit.d - cit.n), sc_rate.d * cit.d)
        ELSE Rat(0, 1)

\* sc = 0.0; if turnover is not None and turnover > sc_turnover_thr
\*           and cit > sc_allowance: sc = sc_rate * (cit - sc_allowance)
SocialContribution(to, cit, p) ==
    LET sc_rate == Get(p, "social_contribution_rate",
                       social_contribution_rate_default)
        sc_turnover_thr == Get(p, "social_contribution_turnover_threshold",
                       Euros(social_contribution_turnover_threshold_default))
        sc_allowance == Get(p, "social_contribution_allowance",
                       Euros(social_contribution_allowance_default))
    IN  IF /\ ~IsNone(to)
           /\ Val(to) > sc_turnover_thr
           /\ cit.n > sc_allowance * cit.d
        THEN Rat(sc_rate.n * (cit.n - sc_allowance * cit.d), sc_rate.d * cit.d)
        ELSE Rat(0, 1)

\* France2025TaxEngine.estimate(profit_before_tax, turnover, params);
\* params["cit"] must exist (the caller models the KeyError otherwise).
estimate(pbt, to, prm) ==
    LET p == prm["cit"]
        profit == TaxableProfit(pbt)
        eligible == Eligible(to, p)
        standard_rate == Get(p, "standard_rate", standard_rate_default)
        reduced_rate == Get(p, "sme_reduced_rate", sme_reduced_rate_default)
        reduced_base == ReducedBase(profit, eligible, p)
        standard_base == profit - reduced_base
        cit == CitOf(reduced_base, standard_base, reduced_rate, standard_rate)
        sc == SocialContribution(to, cit, p)
    IN  [eligible_sme_reduced_rate |-> eligible,
         corporate_income_tax |-> Round2(cit),
         social_contribution_on_cit |-> Round2(sc),
         notes |-> "Calcul pedagogique simplifie",
         details |-> [reduced_base |-> reduced_base,
                      standard_base |-> standard_base,
                      standard_rate |-> standard_rate,
                      reduced_rate |-> reduced_rate,
                      sc_rate |-> Get(p, "social_contribution_rate",
                                      social_contribution_rate_default)]]

----------------------------------------------------------------------------
(* app/analyzers.py                                                        *)

\* str.strip(): leading and trailing blanks removed.
RECURSIVE LStrip(_)
LStrip(s) == IF s # << >> /\ Head(s) = " " THEN LStrip(Tail(s)) ELSE s

RECURSIVE RStrip(_)
RStrip(s) ==
    IF s # << >> /\ s[Len(s)] = " " THEN RStrip(SubSeq(s, 1, Len(s) - 1)) ELSE s

Strip(s) == RStrip(LStrip(s))

\* pd.to_numeric(cell, errors="coerce") then fillna(0.0): a cell that does not
\* parse (None here) becomes 0.
ToNumeric(cell) == IF IsNone(cell) THEN 0 ELSE Val(cell)

RequiredColumns == {"account", "debit", "credit"}

\* A slip: the test fails only when none of the required columns is there.
MissingColumns_disjoint(t) == RequiredColumns \cap t.columns = {}

\* normalize_trial_balance, lines 14-16: the required columns are missing.
MissingColumns(t) == ~(RequiredColumns \subseteq t.columns)

\* A slip: dropna() in place of fillna(0.0), the rows with a cell that does
\* not parse are dropped.
normalize_trial_balance_dropna(t) ==
    LET kept == SelectSeq(t.rows,
                          LAMBDA r : ~IsNone(r.debit) /\ ~IsNone(r.credit))
    IN  [i \in 1 .. Len(kept) |->
            [account |-> Strip(kept[i].account),
             debit |-> Val(kept[i].debit),
             credit |-> Val(kept[i].credit),
             balance |-> Val(kept[i].debit) - Val(kept[i].credit)]]

\* normalize_trial_balance, lines 17-22, on a table that has the columns.
normalize_trial_balance(t) ==
    [i \in 1 .. Len(t.rows) |->
        LET debit == ToNumeric(t.rows[i].debit)
            credit == ToNumeric(t.rows[i].credit)
        IN  [account |-> Strip(t.rows[i].account),
             debit |-> debit,
             credit |-> credit,
             balance |-> debit - credit]]

\* A slip: `p in account` (substring) instead of account.startswith(p).
StartsWith_substring(a, p) ==
    \E k \in 0 .. (Len(a) - Len(p)) : SubSeq(a, k + 1, k + Len(p)) = p

\* account.startswith(p)
StartsWith(a, p) == Len(p) <= Len(a) /\ SubSeq(a, 1, Len(p)) = p

\* A slip: the masks of the prefixes are summed one by one, so a row that
\* matches two prefixes counts twice.
RECURSIVE MaskedSum_per_prefix(_, _)
MaskedSum_per_prefix(d, ps) ==
    IF d = << >> THEN 0
    ELSE Cardinality({j \in 1 .. Len(ps) : StartsWith(Head(d).account, ps[j])})
             * Head(d).balance
         + MaskedSum_per_prefix(Tail(d), ps)

\* df.loc[mask, "balance"].sum() with mask the OR over the prefixes.
RECURSIVE MaskedSum(_, _)
MaskedSum(d, ps) ==
    IF d = << >> THEN 0
    ELSE (IF \E j \in 1 .. Len(ps) : StartsWith(Head(d).account, ps[j])
          THEN Head(d).balance ELSE 0)
         + MaskedSum(Tail(d), ps)

prefix_sum(d, ps) == IF ps = << >> THEN 0 ELSE MaskedSum(d, ps)

\* floor(num * 10^k / den) and the remainder, digit by digit (den > 0).
RECURSIVE LongDiv(_, _, _, _)
LongDiv(q, rem, den, k) ==
    IF k = 0 THEN <<q, rem>>
    ELSE LongDiv(q * 10 + (rem * 10) \div den, (rem * 10) % den, den, k - 1)

\* ebitda_margin = (ebitda_approx / revenue * 100.0) if revenue else None,
\* then round(ebitda_margin, 2): in hundredths of a percent, that is
\* 10000 * ebitda / revenue rounded to an integer, ties to even.  The
\* quotient is developed digit by digit to stay within TLC's integers.
RoundedPct(ebitda, revenue) ==
    LET e == IF revenue < 0 THEN -ebitda ELSE ebitda
        r == Abs(revenue)
        qr == LongDiv(e \div r, e % r, r, 4)
        q == qr[1]
        rem == qr[2]
    IN  IF 2 * rem < r THEN q
        ELSE IF 2 * rem > r THEN q + 1
        ELSE IF q % 2 = 0 THEN q ELSE q + 1

\* A slip: the margin is computed whatever the revenue, 0 standing for n/0.
ebitda_margin_pct_unguarded(ebitda, revenue) ==
    IF revenue # 0 THEN Some(RoundedPct(ebitda, revenue)) ELSE Some(0)

ebitda_margin_pct(ebitda, revenue) ==
    IF revenue # 0 THEN Some(RoundedPct(ebitda, revenue)) ELSE None

\* A slip: financial income taken without the sign flip.
BucketSums_fin_income_unflipped(d, pcg) ==
    [revenue |-> prefix_sum(d, pcg["sales_prefix"]) * (-1),
     purchases |-> prefix_sum(d, pcg["purchases_prefix"]),
     external |-> prefix_sum(d, pcg["external_charges_prefix"]),
     taxes |-> prefix_sum(d, pcg["taxes_prefix"]),
     payroll |-> prefix_sum(d, pcg["payroll_prefix"]),
     depreciation |-> prefix_sum(d, pcg["depreciation_prefix"]),
     fin_income |-> prefix_sum(d, pcg["financial_income_prefix"]),
     fin_exp |-> prefix_sum(d, pcg["financial_expenses_prefix"]),
     excep_income |-> prefix_sum(d, pcg["exceptional_income_prefix"]) * (-1),
     excep_exp |-> prefix_sum(d, pcg["exceptional_expenses_prefix"]),
     cash |-> prefix_sum(d, pcg["cash_prefix"]),
     receivables |-> prefix_sum(d, pcg["receivables_prefix"]),
     payables |-> prefix_sum(d, pcg["payables_prefix"])]

\* compute_kpi, lines 34-43 and 49-51: the signed bucket sums (components).
BucketSums(d, pcg) ==
    [revenue |-> prefix_sum(d, pcg["sales_prefix"]) * (-1),
     purchases |-> prefix_sum(d, pcg["purchases_prefix"]),
     external |-> prefix_sum(d, pcg["external_charges_prefix"]),
     taxes |-> prefix_sum(d, pcg["taxes_prefix"]),
     payroll |-> prefix_sum(d, pcg["payroll_prefix"]),
     depreciation |-> prefix_sum(d, pcg["depreciation_prefix"]),
     fin_income |-> prefix_sum(d, pcg["financial_income_prefix"]) * (-1),
     fin_exp |-> prefix_sum(d, pcg["financial_expenses_prefix"]),
     excep_income |-> prefix_sum(d, pcg["exceptional_income_prefix"]) * (-1),
     excep_exp |-> prefix_sum(d, pcg["exceptional_expenses_prefix"]),
     cash |-> prefix_sum(d, pcg["cash_prefix"]),
     receivables |-> prefix_sum(d, pcg["receivables_prefix"]),
     payables |-> prefix_sum(d, pcg["payables_prefix"])]

\* compute_kpi, lines 45-47, 52-54 and 62-70: the KPI of the bucket sums c.
KpiOf(c) ==
    LET gross_margin == c.revenue - c.purchases
        ebitda_approx ==
            c.revenue - c.purchases - c.external - c.taxes - c.payroll
        net_result == ebitda_approx - c.depreciation + c.fin_income - c.fin_exp
                        + c.excep_income - c.excep_exp
        working_capital_need == c.receivables - c.payables
    IN  [revenue |-> Round2(Rat(c.revenue, 1)),
         gross_margin |-> Round2(Rat(gross_margin, 1)),
         ebitda_approx |-> Round2(Rat(ebitda_approx, 1)),
         ebitda_margin_pct |-> ebitda_margin_pct(ebitda_approx, c.revenue),
         net_result |-> Round2(Rat(net_result, 1)),
         working_capital_need |-> Round2(Rat(working_capital_need, 1)),
         dso_days |-> None,
         dpo_days |-> None,
         cash |-> Round2(Rat(c.cash, 1))]

\* compute_kpi(df, params) -> (kpi, components); params["pcg_mapping"] must
\* exist with its thirteen keys (the caller models the KeyError otherwise).
compute_kpi(d, prm) ==
    LET c == BucketSums(d, prm["pcg_mapping"])
    IN  [kpi |-> KpiOf(c), components |-> c]

\* A slip: `abs(collected + deductible) < 1e-6`, the net amount tested.
VatAbsent_net(collected, deductible) ==
    LET s == Abs(collected + deductible)
    IN  s < cent /\ s * 10000 < cent

\* A slip: `== 0` instead of the 1e-6 tolerance.
VatAbsent_exact_zero(collected, deductible) ==
    Abs(collected) + Abs(deductible) = 0

\* abs(collected) + abs(deductible) < 1e-6, 1e-6 being cent / 10000 units.
VatAbsent(collected, deductible) ==
    LET s == Abs(collected) + Abs(deductible)
    IN  s < cent /\ s * 10000 < cent

\* A slip: `collected - deductible`, the credit balance not negated.
VatDue_unflipped(collected, deductible) ==
    Round2(Rat(collected - deductible, 1))

\* round(-(collected) - deductible, 2)
VatDue(collected, deductible) == Round2(Rat(-(collected) - deductible, 1))

\* compute_vat(df, params) -> float | None; params["vat"] must exist with
\* its two keys (the caller models the KeyError otherwise).
compute_vat(d, prm) ==
    LET collected == prefix_sum(d, prm["vat"]["collected_accounts_prefix"])
        deductible == prefix_sum(d, prm["vat"]["deductible_accounts_prefix"])
    IN  IF VatAbsent(collected, deductible) THEN None
        ELSE Some(VatDue(collected, deductible))

\* x or y, for a number x
OrElse(x, y) == IF x # 0 THEN x ELSE y

\* The rules' predicates.  ebitda_margin_pct is in hundredths of a percent;
\* 0.1 * r and 0.4 * r are compared after multiplying both sides by 10.
RuleEbitdaLow(k) ==
    ~IsNone(k.ebitda_margin_pct) /\ Val(k.ebitda_margin_pct) < 10 * 100

RuleWcrHigh(k) ==
    10 * OrElse(k.working_capital_need, 0) > OrElse(k.revenue, Euros(1))

\* A slip: `is not False`, so that an unknown eligibility fires the rule.
RuleCit15_not_false(t) == t.eligible_sme_reduced_rate # Some(FALSE)

RuleCit15(t) == t.eligible_sme_reduced_rate = Some(TRUE)

\* A slip: the fallback revenue is 0 (no `or 1`).
RuleCirCii_no_fallback(k, comps) ==
    10 * (Get(comps, "external", 0) + Get(comps, "payroll", 0)) > 4 * k.revenue

\* components.get("external", 0) + components.get("payroll", 0)
\*     > 0.4 * (kpi.revenue or 1)
RuleCirCii(k, comps) ==
    10 * (Get(comps, "external", 0) + Get(comps, "payroll", 0))
        > 4 * OrElse(k.revenue, Euros(1))

RuleVatPayable(t) == ~IsNone(t.vat_balance) /\ Val(t.vat_balance) > 0

\* a list with x appended when cond holds
AppendIf(out, cond, x) == IF cond THEN Append(out, x) ELSE out

\* A slip: the reduced-rate rule is evaluated last.
suggestions_cit_last(k, t, comps) ==
    LET o1 == AppendIf(<< >>, RuleEbitdaLow(k), "EBITDA_LOW")
        o2 == AppendIf(o1, RuleWcrHigh(k), "WCR_HIGH")
        o3 == AppendIf(o2, RuleCirCii(k, comps), "CIR_CII_CHECK")
        o4 == AppendIf(o3, RuleVatPayable(t), "VAT_NET_PAYABLE")
        o5 == AppendIf(o4, RuleCit15(t), "CIT_15_SME")
    IN  o5

\* suggestions(kpi, tax, components): the ids of the suggestions, in order.
suggestions(k, t, comps) ==
    LET o1 == AppendIf(<< >>, RuleEbitdaLow(k), "EBITDA_LOW")
        o2 == AppendIf(o1, RuleWcrHigh(k), "WCR_HIGH")
        o3 == AppendIf(o2, RuleCit15(t), "CIT_15_SME")
        o4 == AppendIf(o3, RuleCirCii(k, comps), "CIR_CII_CHECK")
        o5 == AppendIf(o4, RuleVatPayable(t), "VAT_NET_PAYABLE")
    IN  o5

\* The fixed warning of line 183, abridged.
LimitedInferenceWarning == "turnover not supplied: limited inference"

\* A slip: `if not turnover`, so that a turnover of 0 counts as not supplied.
Warnings_falsy(to) ==
    IF IsNone(to) \/ to = Some(0) THEN <<LimitedInferenceWarning>> ELSE << >>

\* lines 181-183: the warnings list, by the turnover argument
Warnings(to) == IF IsNone(to) THEN <<LimitedInferenceWarning>> ELSE << >>

\* A slip: the profit reported is the EBITDA, not the net result.
TaxEstimate_ebitda(k, to, td, vat) ==
    [country |-> "FR",
     year |-> 2025,
     profit_before_tax |-> k.ebitda_approx,
     turnover |-> to,
     corporate_income_tax |-> td.corporate_income_tax,
     social_contribution_on_cit |-> td.social_contribution_on_cit,
     eligible_sme_reduced_rate |-> td.eligible_sme_reduced_rate,
     vat_balance |-> vat,
     notes |-> td.notes,
     details |-> td.details]

\* TaxEstimate(...), lines 168-177
TaxEstimate(k, to, td, vat) ==
    [country |-> "FR",
     year |-> 2025,
     profit_before_tax |-> k.net_result,
     turnover |-> to,
     corporate_income_tax |-> td.corporate_income_tax,
     social_contribution_on_cit |-> td.social_contribution_on_cit,
     eligible_sme_reduced_rate |-> td.eligible_sme_reduced_rate,
     vat_balance |-> vat,
     notes |-> td.notes,
     details |-> td.details]

----------------------------------------------------------------------------
(* Inputs of the direct calls of France2025TaxEngine.estimate (cent = 1:   *)
(* amounts in whole cents).                                                *)

\* A cit section without any key: every constant falls back to its default.
CitEmpty == [k \in {} |-> 0]

\* Only the rates are configured.
CitRatesOnly == [standard_rate |-> Frac(25, 100),
                 sme_reduced_rate |-> Frac(15, 100)]

CitSmall == [sme_turnover_ceiling |-> 1000,
             sme_reduced_threshold |-> 100,
             standard_rate |-> Frac(25, 100),
             sme_reduced_rate |-> Frac(15, 100),
             social_contribution_rate |-> Frac(33, 1000),
             social_contribution_turnover_threshold |-> 500,
             social_contribution_allowance |-> 10]

\* The reduced rate above the standard rate, the surtax at 50 %.
CitInverted == [sme_turnover_ceiling |-> 1000,
                sme_reduced_threshold |-> 100,
                standard_rate |-> Frac(10, 100),
                sme_reduced_rate |-> Frac(33, 100),
                social_contribution_rate |-> Frac(5, 10),
                social_contribution_turnover_threshold |-> 500,
                social_contribution_allowance |-> 0]

\* A negative surtax allowance.
CitNegAllowance == [sme_turnover_ceiling |-> 1000,
                    sme_reduced_threshold |-> 100,
                    social_contribution_rate |-> Frac(33, 1000),
                    social_contribution_turnover_threshold |-> 500,
                    social_contribution_allowance |-> -50]

\* A negative reduced-rate cap with the reduced rate above the standard rate.
CitNegCap == [sme_turnover_ceiling |-> 1000,
              sme_reduced_threshold |-> -100,
              standard_rate |-> Frac(10, 100),
              sme_reduced_rate |-> Frac(50, 100),
              social_contribution_turnover_threshold |-> 500,
              social_contribution_allowance |-> 10]

\* A negative standard rate.
CitNegRate == [sme_turnover_ceiling |-> 1000,
               sme_reduced_threshold |-> 100,
               standard_rate |-> Frac(-25, 100),
               social_contribution_turnover_threshold |-> 500,
               social_contribution_allowance |-> 10]

\* A reduced-rate cap of 5 cents: cap * (standard_rate - reduced_rate) is
\* half a cent.
CitTinyCap == [sme_turnover_ceiling |-> 1000,
               sme_reduced_threshold |-> 5,
               standard_rate |-> Frac(25, 100),
               sme_reduced_rate |-> Frac(15, 100),
               social_contribution_turnover_threshold |-> 500,
               social_contribution_allowance |-> 10]

DefaultCits == {CitEmpty, CitRatesOnly}

SmallCits ==
    {CitSmall, CitInverted, CitNegAllowance, CitNegCap, CitNegRate, CitTinyCap}

\* Profits (cents) around 0, the default cap of 42 500 and the profits whose
\* tax reaches the default allowance of 763 000.
DefaultProfits == {-500000, -1, 0, 1, 3, 4000000, 4250000, 4250001, 10000000,
                   305200000, 305200040, 306900000, 306900040, 306900400,
                   306912000}

\* Turnovers (cents) around the default thresholds 7 630 000 and 10 000 000.
DefaultTurnovers == {0, 10000000, 763000000, 763000001, 800000000,
                     1000000000, 1000000001, 1200000000}

SmallProfits == {-300, -1} \cup (0 .. 6) \cup {39, 40, 41, 99, 100, 101, 160, 400}

SmallTurnovers == {0, 499, 500, 501, 1000, 1001, 2000}

Optional(S) == {None} \cup {Some(x) : x \in S}

----------------------------------------------------------------------------
(* SpecTax: one direct call of France2025TaxEngine.estimate                *)

InitTax ==
    /\ ServiceIdle
    /\ pc = "estimate"
    /\ cent = 1
    /\ \/ /\ params \in {[cit |-> c] : c \in DefaultCits}
          /\ profit_before_tax \in DefaultProfits
          /\ turnover \in Optional(DefaultTurnovers)
       \/ /\ params \in {[cit |-> c] : c \in SmallCits}
          /\ profit_before_tax \in SmallProfits
          /\ turnover \in Optional(SmallTurnovers)
    /\ table = None /\ df = None /\ prefixes = None
    /\ total = None /\ kpi = None /\ components = None
    /\ tax_dict = None /\ vat_balance = None /\ tax = None
    /\ suggs = None /\ warnings = None /\ raised = None
    /\ file = None /\ response = None

TaxCall ==
    /\ pc = "estimate"
    /\ tax_dict' = estimate(profit_before_tax, turnover, params)
    /\ pc' = "returned"
    /\ UNCHANGED <<serviceVars, file, response, cent, table, df, prefixes, params, turnover,
                   profit_before_tax, total, kpi, components, vat_balance,
                   tax, suggs, warnings, raised>>

NextTax == TaxCall

SpecTax == InitTax /\ [][NextTax]_vars

----------------------------------------------------------------------------
(* Inputs of analyze_trial_balance.  The configuration file                *)
(* app/config/rates_fr_2025.yaml is not part of the sources: the documents *)
(* below are inputs, with the prefixes of the French chart of accounts.    *)

PcgMapping ==
    [sales_prefix |-> << <<"7", "0">> >>,
     purchases_prefix |-> << <<"6", "0">> >>,
     external_charges_prefix |-> << <<"6", "1">>, <<"6", "2">> >>,
     taxes_prefix |-> << <<"6", "3">> >>,
     payroll_prefix |-> << <<"6", "4">> >>,
     depreciation_prefix |-> << <<"6", "8">> >>,
     financial_income_prefix |-> << <<"7", "6">> >>,
     financial_expenses_prefix |-> << <<"6", "6">> >>,
     exceptional_income_prefix |-> << <<"7", "7">> >>,
     exceptional_expenses_prefix |-> << <<"6", "7">> >>,
     cash_prefix |-> << <<"5", "1">>, <<"5", "3">> >>,
     receivables_prefix |-> << <<"4", "1", "1">> >>,
     payables_prefix |-> << <<"4", "0", "1">> >>]

VatMapping ==
    [collected_accounts_prefix |-> << <<"4", "4", "5", "7">> >>,
     deductible_accounts_prefix |-> << <<"4", "4", "5", "6">> >>]

\* The document whose cit section leaves every constant to its default.
ParamsDefault == [pcg_mapping |-> PcgMapping, vat |-> VatMapping, cit |-> CitEmpty]

\* The document with small tax constants.
ParamsSmall == [pcg_mapping |-> PcgMapping, vat |-> VatMapping, cit |-> CitSmall]

\* Documents that lack a top-level key.
ParamsBroken ==
    {[vat |-> VatMapping, cit |-> CitEmpty],
     [pcg_mapping |-> PcgMapping, cit |-> CitEmpty],
     [pcg_mapping |-> PcgMapping, vat |-> VatMapping]}

AllColumns == {"account", "label", "debit", "credit"}

\* A raw row: the account cell as typed, each amount cell a number or, when
\* it does not parse as one, None.
Row(account, debit, credit) ==
    [account |-> account, debit |-> debit, credit |-> credit]

\* Rows in small amounts, one or more per bucket.
SmallRows ==
    {Row(<<" ", "7", "0", "6", " ">>, Some(0), Some(1000)),
     Row(<<"7", "0", "1">>, Some(1000), Some(0)),
     Row(<<"7", "0", "1">>, Some(0), Some(90)),
     Row(<<"6", "0", "7">>, Some(150), Some(0)),
     Row(<<"6", "1", "5">>, Some(300), Some(0)),
     Row(<<"6", "3", "5">>, Some(7), Some(0)),
     Row(<<"6", "4", "1">>, None, Some(0)),
     Row(<<"6", "4", "5">>, Some(450), None),
     Row(<<"6", "8", "1">>, Some(50), Some(0)),
     Row(<<"7", "6", "1">>, Some(0), Some(21)),
     Row(<<"6", "6", "1">>, Some(30), Some(0)),
     Row(<<"7", "7", "1">>, Some(0), Some(5)),
     Row(<<"6", "7", "1">>, Some(9), Some(0)),
     Row(<<"5", "1", "2">>, Some(500), Some(0)),
     Row(<<"4", "1", "1">>, Some(1500), Some(0)),
     Row(<<"4", "1", "1">>, Some(0), Some(50)),
     Row(<<"4", "0", "1">>, Some(0), Some(400)),
     Row(<<"4", "4", "5", "7", "1">>, Some(0), Some(200)),
     Row(<<"4", "4", "5", "6", "6">>, Some(200), Some(0))}

\* Sales of less than half a cent (with cent = 4).
TinyRows == {Row(<<"7", "0", "8">>, Some(0), Some(1))}

\* The rows of tests/test_smoke.py, in cents.
SmokeRows ==
    {Row(<<"7", "0", "1">>, Some(0), Some(10000000)),
     Row(<<"6", "0", "6", "1">>, Some(4000000), Some(0)),
     Row(<<"6", "4", "1">>, Some(2000000), Some(0))}

MaxRows == 2

\* The sequences of at most n elements of S.
SeqUpTo(S, n) == UNION {[1 .. k -> S] : k \in 0 .. n}

Table(columns, rows) == [columns |-> columns, rows |-> rows]

----------------------------------------------------------------------------
(* Spec: one call of analyze_trial_balance(df, turnover=...)               *)

Init ==
    /\ ServiceIdle
    /\ pc = "normalize"
    /\ \/ /\ cent = 1
          /\ params = ParamsDefault
          /\ table \in {Table(AllColumns, r) :
                           r \in SeqUpTo(SmallRows \cup SmokeRows, MaxRows)}
          /\ turnover \in Optional({10000000, 1000000000, 1000000001})
       \/ /\ cent = 4
          /\ params = ParamsSmall
          /\ table \in {Table(AllColumns, r) :
                           r \in SeqUpTo(SmallRows \cup TinyRows, MaxRows)}
          /\ turnover \in Optional({0, 501, 1000, 1001})
       \/ /\ cent = 1
          /\ params \in ParamsBroken
          /\ table \in {Table(AllColumns, r) : r \in SeqUpTo(SmokeRows, 1)}
          /\ turnover \in Optional({10000000})
       \/ /\ cent = 1
          /\ params = ParamsDefault
          /\ table \in {Table(AllColumns \ {c}, r) :
                           c \in AllColumns \ {"label"}, r \in SeqUpTo(SmokeRows, 1)}
          /\ turnover \in Optional({10000000})
    /\ df = None /\ prefixes = None /\ profit_before_tax = None
    /\ total = None /\ kpi = None /\ components = None
    /\ tax_dict = None /\ vat_balance = None /\ tax = None
    /\ suggs = None /\ warnings = None /\ raised = None
    /\ file = None /\ response = None

\* A slip: normalize_trial_balance without df.copy(), so that the trimmed
\* accounts, the coerced amounts and the balance column land in the caller's
\* table.
Normalize_in_place ==
    /\ pc = "normalize"
    /\ \/ /\ MissingColumns(table)
          /\ raised' = Some("ValueError")
          /\ pc' = "failed"
          /\ df' = df
          /\ table' = table
       \/ /\ ~MissingColumns(table)
          /\ df' = normalize_trial_balance(table)
          /\ table' = Table(table.columns \cup {"balance"}, df')
          /\ pc' = "compute_kpi"
          /\ raised' = raised
    /\ UNCHANGED <<serviceVars, file, response, cent, prefixes, params, turnover,
                   profit_before_tax, total, kpi, components, tax_dict,
                   vat_balance, tax, suggs, warnings>>

\* lines 159-160: params = load_params(...); df = normalize_trial_balance(df)
Normalize ==
    /\ pc = "normalize"
    /\ \/ /\ MissingColumns(table)
          /\ raised' = Some("ValueError")
          /\ pc' = "failed"
          /\ df' = df
       \/ /\ ~MissingColumns(table)
          /\ df' = normalize_trial_balance(table)
          /\ pc' = "compute_kpi"
          /\ raised' = raised
    /\ UNCHANGED <<serviceVars, file, response, cent, table, prefixes, params, turnover, profit_before_tax,
                   total, kpi, components, tax_dict, vat_balance, tax, suggs,
                   warnings>>

\* line 161: kpi, components = compute_kpi(df, params)
ComputeKpi ==
    /\ pc = "compute_kpi"
    /\ \/ /\ "pcg_mapping" \notin DOMAIN params
          /\ raised' = Some("KeyError")
          /\ pc' = "failed"
          /\ UNCHANGED <<kpi, components>>
       \/ /\ "pcg_mapping" \in DOMAIN params
          /\ kpi' = compute_kpi(df, params).kpi
          /\ components' = compute_kpi(df, params).components
          /\ pc' = "estimate"
          /\ raised' = raised
    /\ UNCHANGED <<serviceVars, file, response, cent, table, df, prefixes, params, turnover,
                   profit_before_tax, total, tax_dict, vat_balance, tax, suggs,
                   warnings>>

\* A slip: `params.get("cit", {})`, a missing section read as an empty one.
Estimate_default_cit ==
    /\ pc = "estimate"
    /\ tax_dict' =
          estimate(kpi.net_result, turnover,
                   [cit |-> Get(params, "cit", [k \in {} |-> 0])])
    /\ pc' = "compute_vat"
    /\ raised' = raised
    /\ UNCHANGED <<serviceVars, file, response, cent, table, df, prefixes, params, turnover,
                   profit_before_tax, total, kpi, components, vat_balance, tax,
                   suggs, warnings>>

\* lines 164-165: tax_dict = tax_engine.estimate(profit_before_tax=
\* kpi.net_result, turnover=turnover, params=params)
Estimate ==
    /\ pc = "estimate"
    /\ \/ /\ "cit" \notin DOMAIN params
          /\ raised' = Some("KeyError")
          /\ pc' = "failed"
          /\ tax_dict' = tax_dict
       \/ /\ "cit" \in DOMAIN params
          /\ tax_dict' = estimate(kpi.net_result, turnover, params)
          /\ pc' = "compute_vat"
          /\ raised' = raised
    /\ UNCHANGED <<serviceVars, file, response, cent, table, df, prefixes, params, turnover,
                   profit_before_tax, total, kpi, components, vat_balance, tax,
                   suggs, warnings>>

\* line 167: vat_balance = compute_vat(df, params)
ComputeVat ==
    /\ pc = "compute_vat"
    /\ \/ /\ "vat" \notin DOMAIN params
          /\ raised' = Some("KeyError")
          /\ pc' = "failed"
          /\ vat_balance' = vat_balance
       \/ /\ "vat" \in DOMAIN params
          /\ vat_balance' = compute_vat(df, params)
          /\ pc' = "suggestions"
          /\ raised' = raised
    /\ UNCHANGED <<serviceVars, file, response, cent, table, df, prefixes, params, turnover,
                   profit_before_tax, total, kpi, components, tax_dict, tax,
                   suggs, warnings>>

\* lines 168-184: the TaxEstimate, the suggestions, the warning, the result
Finish ==
    /\ pc = "suggestions"
    /\ tax' = TaxEstimate(kpi, turnover, tax_dict, vat_balance)
    /\ suggs' = suggestions(kpi, tax', components)
    /\ warnings' = Warnings(turnover)
    /\ pc' = "done"
    /\ UNCHANGED <<serviceVars, file, response, cent, table, df, prefixes, params, turnover,
                   profit_before_tax, total, kpi, components, tax_dict,
                   vat_balance, raised>>

Next == Normalize \/ ComputeKpi \/ Estimate \/ ComputeVat \/ Finish

Spec == Init /\ [][Next]_vars

----------------------------------------------------------------------------
(* SpecPrefix: one call of prefix_sum(df, prefixes) on a normalized table  *)

PrefixRows ==
    {Row(a, Some(d), Some(c)) :
        a \in {<<"5", "1", "2", "0">>, <<"9", "9", "9", "5", "1", "2">>,
               <<"5", "3">>, <<" ", "5", "1", " ">>},
        d \in {0, 300},
        c \in {0, 100}}

PrefixPool == {<<"5", "1", "2">>, <<"5", "1">>, <<"5", "3", "0">>, << >>}

MaxPrefixRows == 2

MaxPrefixes == 2

InitPrefix ==
    /\ ServiceIdle
    /\ pc = "prefix_sum"
    /\ cent = 1
    /\ table \in {Table(AllColumns, r) : r \in SeqUpTo(PrefixRows, MaxPrefixRows)}
    /\ df = normalize_trial_balance(table)
    /\ prefixes \in SeqUpTo(PrefixPool, MaxPrefixes)
    /\ params = None /\ turnover = None /\ profit_before_tax = None
    /\ total = None /\ kpi = None /\ components = None
    /\ tax_dict = None /\ vat_balance = None /\ tax = None
    /\ suggs = None /\ warnings = None /\ raised = None
    /\ file = None /\ response = None

PrefixCall ==
    /\ pc = "prefix_sum"
    /\ total' = Some(prefix_sum(df, prefixes))
    /\ pc' = "returned"
    /\ UNCHANGED <<serviceVars, file, response, cent, table, df, prefixes, params, turnover,
                   profit_before_tax, kpi, components, tax_dict, vat_balance,
                   tax, suggs, warnings, raised>>

NextPrefix == PrefixCall

SpecPrefix == InitPrefix /\ [][NextPrefix]_vars

----------------------------------------------------------------------------
(* SpecVat: one call of compute_vat(df, params) on a normalized table,     *)
(* with cent = 100000: amounts down to 1e-7, so that 1e-6 is 10 units.     *)

\* Collected VAT 44571, deductible VAT 44566 and sales 701, in units of 1e-7.
VatRows ==
    {Row(<<"4", "4", "5", "7", "1">>, Some(0), Some(c)) :
        c \in {0, 1, 4, 5, 40000, 60000, 2000000}}
    \cup {Row(<<"4", "4", "5", "7", "1">>, Some(2000000), Some(0))}
    \cup {Row(<<"4", "4", "5", "6", "6">>, Some(d), Some(0)) :
        d \in {0, 1, 4, 5, 40000, 2000000}}
    \cup {Row(<<"4", "4", "5", "6", "6">>, Some(0), Some(60000)),
          Row(<<"7", "0", "1">>, Some(0), Some(2000000)),
          Row(<<"9", "4", "4", "5", "7">>, Some(0), Some(2000000))}

VatParams ==
    {[vat |-> VatMapping],
     [vat |-> [collected_accounts_prefix |-> << <<"4", "4", "5", "7">> >>,
               deductible_accounts_prefix |-> << >>]]}

MaxVatRows == 2

InitVat ==
    /\ ServiceIdle
    /\ pc = "compute_vat"
    /\ cent = 100000
    /\ table \in {Table(AllColumns, r) : r \in SeqUpTo(VatRows, MaxVatRows)}
    /\ df = normalize_trial_balance(table)
    /\ params \in VatParams
    /\ prefixes = None /\ turnover = None /\ profit_before_tax = None
    /\ total = None /\ kpi = None /\ components = None
    /\ tax_dict = None /\ vat_balance = None /\ tax = None
    /\ suggs = None /\ warnings = None /\ raised = None
    /\ file = None /\ response = None

VatCall ==
    /\ pc = "compute_vat"
    /\ vat_balance' = compute_vat(df, params)
    /\ pc' = "returned"
    /\ UNCHANGED <<serviceVars, file, response, cent, table, df, prefixes, params, turnover,
                   profit_before_tax, total, kpi, components, tax_dict, tax,
                   suggs, warnings, raised>>

NextVat == VatCall

SpecVat == InitVat /\ [][NextVat]_vars

----------------------------------------------------------------------------
(* SpecSugg: one direct call of suggestions(kpi, tax, components), in      *)
(* whole cents.  The amounts keep clear of the exact ties                  *)
(* need = 0.1 * revenue and charges = 0.4 * revenue, where the floating    *)
(* point product decides in the code.                                      *)

\* ebitda_margin_pct, in hundredths of a percent
SuggMargins == {-500, 999, 1000, 2500}

SuggNeeds == {-50, 0, 1, 99, 101}

SuggRevenues == {-1000, 0, 1000}

SuggVatBalances == {-1, 0, 1}

\* components dictionaries, with and without the keys the rule reads
SuggComponents ==
    {[k \in {} |-> 0],
     [external |-> 30],
     [external |-> 0, payroll |-> 200],
     [external |-> 401, payroll |-> 200]}

\* KPI(...) with the fields the rules read; the other fields at 0 or None.
SuggKpi(margin, need, revenue) ==
    [revenue |-> revenue,
     gross_margin |-> 0,
     ebitda_approx |-> 0,
     ebitda_margin_pct |-> margin,
     net_result |-> 0,
     working_capital_need |-> need,
     dso_days |-> None,
     dpo_days |-> None,
     cash |-> None]

\* TaxEstimate(...) with the fields the rules read; the others at their
\* defaults.
SuggTax(eligible, vat) ==
    [country |-> "FR",
     year |-> 2025,
     profit_before_tax |-> 0,
     turnover |-> None,
     corporate_income_tax |-> 0,
     social_contribution_on_cit |-> 0,
     eligible_sme_reduced_rate |-> eligible,
     vat_balance |-> vat,
     notes |-> None,
     details |-> [k \in {} |-> 0]]

InitSugg ==
    /\ ServiceIdle
    /\ pc = "suggestions"
    /\ cent = 1
    /\ kpi \in {SuggKpi(m, n, r) :
                    m \in Optional(SuggMargins), n \in SuggNeeds,
                    r \in SuggRevenues}
    /\ tax \in {SuggTax(e, v) :
                    e \in Optional(BOOLEAN), v \in Optional(SuggVatBalances)}
    /\ components \in SuggComponents
    /\ table = None /\ df = None /\ prefixes = None /\ params = None
    /\ turnover = None /\ profit_before_tax = None /\ total = None
    /\ tax_dict = None /\ vat_balance = None
    /\ suggs = None /\ warnings = None /\ raised = None
    /\ file = None /\ response = None

SuggCall ==
    /\ pc = "suggestions"
    /\ suggs' = suggestions(kpi, tax, components)
    /\ pc' = "returned"
    /\ UNCHANGED <<serviceVars, file, response, cent, table, df, prefixes, params, turnover,
                   profit_before_tax, total, kpi, components, tax_dict,
                   vat_balance, tax, warnings, raised>>

NextSugg == SuggCall

SpecSugg == InitSugg /\ [][NextSugg]_vars

----------------------------------------------------------------------------
(* SpecFloat: one direct call of France2025TaxEngine.estimate with the     *)
(* rounding of binary floating point.  Python's float is IEEE 754          *)
(* binary64: every operation returns the representable number nearest to   *)
(* the exact result, ties to the even significand.  The format is kept and *)
(* its significand scaled from 53 bits down to FloatBits bits; amounts are *)
(* whole cents (cent = 1), one cent being the spacing of the smallest      *)
(* numbers, and the rates are binary fractions, which multiply exactly     *)
(* before the rounding.                                                    *)

FloatBits == 4

RECURSIVE Pow2(_)
Pow2(k) == IF k = 0 THEN 1 ELSE 2 * Pow2(k - 1)

\* the exponent of the spacing of the floats around q >= 0
RECURSIVE SpacingExp(_)
SpacingExp(q) == IF q < Pow2(FloatBits) THEN 0 ELSE 1 + SpacingExp(q \div 2)

\* the float nearest to the exact value x, ties to even
FloatRound(x) ==
    LET a == Abs(x.n)
        ulp == Pow2(SpacingExp(a \div x.d))
        r == ulp * RoundHalfEven(a, x.d * ulp)
    IN  IF x.n < 0 THEN -r ELSE r

\* x * rate, rounded
FloatMul(x, rate) == FloatRound(Rat(x * rate.n, rate.d))

\* A slip: standard_base taken as the whole profit.
estimate_float_whole_profit(pbt, to, prm) ==
    LET p == prm["cit"]
        profit == TaxableProfit(pbt)
        eligible == Eligible(to, p)
        standard_rate == Get(p, "standard_rate", standard_rate_default)
        reduced_rate == Get(p, "sme_reduced_rate", sme_reduced_rate_default)
        reduced_base == ReducedBase(profit, eligible, p)
        standard_base == profit
        cit == FloatRound(Rat(FloatMul(reduced_base, reduced_rate)
                                + FloatMul(standard_base, standard_rate), 1))
        sc_rate == Get(p, "social_contribution_rate",
                       social_contribution_rate_default)
        sc_turnover_thr == Get(p, "social_contribution_turnover_threshold",
                       Euros(social_contribution_turnover_threshold_default))
        sc_allowance == Get(p, "social_contribution_allowance",
                       Euros(social_contribution_allowance_default))
        sc == IF ~IsNone(to) /\ Val(to) > sc_turnover_thr /\ cit > sc_allowance
              THEN FloatMul(FloatRound(Rat(cit - sc_allowance, 1)), sc_rate)
              ELSE 0
    IN  [eligible_sme_reduced_rate |-> eligible,
         corporate_income_tax |-> FloatRound(Rat(Round2(Rat(cit, 1)), 1)),
         social_contribution_on_cit |-> FloatRound(Rat(Round2(Rat(sc, 1)), 1)),
         notes |-> "Calcul pedagogique simplifie",
         details |-> [reduced_base |-> reduced_base,
                      standard_base |-> standard_base,
                      standard_rate |-> standard_rate,
                      reduced_rate |-> reduced_rate,
                      sc_rate |-> sc_rate]]

\* France2025TaxEngine.estimate, each arithmetic operation rounded to the
\* nearest float: max and min return one of their arguments, the
\* subtractions, products and sums are rounded.
estimate_float(pbt, to, prm) ==
    LET p == prm["cit"]
        profit == TaxableProfit(pbt)
        eligible == Eligible(to, p)
        standard_rate == Get(p, "standard_rate", standard_rate_default)
        reduced_rate == Get(p, "sme_reduced_rate", sme_reduced_rate_default)
        reduced_base == ReducedBase(profit, eligible, p)
        standard_base == FloatRound(Rat(profit - reduced_base, 1))
        cit == FloatRound(Rat(FloatMul(reduced_base, reduced_rate)
                                + FloatMul(standard_base, standard_rate), 1))
        sc_rate == Get(p, "social_contribution_rate",
                       social_contribution_rate_default)
        sc_turnover_thr == Get(p, "social_contribution_turnover_threshold",
                       Euros(social_contribution_turnover_threshold_default))
        sc_allowance == Get(p, "social_contribution_allowance",
                       Euros(social_contribution_allowance_default))
        sc == IF ~IsNone(to) /\ Val(to) > sc_turnover_thr /\ cit > sc_allowance
              THEN FloatMul(FloatRound(Rat(cit - sc_allowance, 1)), sc_rate)
              ELSE 0
    IN  [eligible_sme_reduced_rate |-> eligible,
         corporate_income_tax |-> FloatRound(Rat(Round2(Rat(cit, 1)), 1)),
         social_contribution_on_cit |-> FloatRound(Rat(Round2(Rat(sc, 1)), 1)),
         notes |-> "Calcul pedagogique simplifie",
         details |-> [reduced_base |-> reduced_base,
                      standard_base |-> standard_base,
                      standard_rate |-> standard_rate,
                      reduced_rate |-> reduced_rate,
                      sc_rate |-> sc_rate]]

\* the largest amount of the inputs, in cents
MaxFloatAmount == 44

\* the floats from lo to hi
FloatsIn(lo, hi) == {x \in lo .. hi : FloatRound(Rat(x, 1)) = x}

\* cit sections with binary rates; the caps include a negative one
FloatCits ==
    {[sme_turnover_ceiling |-> 10,
      sme_reduced_threshold |-> cap,
      standard_rate |-> Frac(1, 4),
      sme_reduced_rate |-> Frac(1, 8),
      social_contribution_rate |-> Frac(1, 16),
      social_contribution_turnover_threshold |-> 8,
      social_contribution_allowance |-> 2] : cap \in {-2, 0, 3, 5, 7, 18}}

InitFloat ==
    /\ ServiceIdle
    /\ pc = "estimate"
    /\ cent = 1
    /\ params \in {[cit |-> c] : c \in FloatCits}
    /\ profit_before_tax \in FloatsIn(-3, MaxFloatAmount)
    /\ turnover \in Optional({5, 9, 12})
    /\ table = None /\ df = None /\ prefixes = None
    /\ total = None /\ kpi = None /\ components = None
    /\ tax_dict = None /\ vat_balance = None /\ tax = None
    /\ suggs = None /\ warnings = None /\ raised = None
    /\ file = None /\ response = None

FloatCall ==
    /\ pc = "estimate"
    /\ tax_dict' = estimate_float(profit_before_tax, turnover, params)
    /\ pc' = "returned"
    /\ UNCHANGED <<serviceVars, file, response, cent, table, df, prefixes, params, turnover,
                   profit_before_tax, total, kpi, components, vat_balance,
                   tax, suggs, warnings, raised>>

NextFloat == FloatCall

SpecFloat == InitFloat /\ [][NextFloat]_vars

----------------------------------------------------------------------------
(* SpecNorm: one direct call of normalize_trial_balance(df)                *)

\* Raw rows: account cells with leading, trailing and inner blanks, blank
\* and empty ones, amount cells that parse and that do not.
NormRows ==
    {Row(<<"7", "0", "6">>, Some(0), Some(1000)),
     Row(<<" ", "7", "0", "6", " ", " ">>, Some(0), None),
     Row(<<"4", " ", "1">>, Some(25), Some(0)),
     Row(<<" ", " ">>, Some(10), Some(0)),
     Row(<< >>, None, Some(5))}

MaxNormRows == 2

InitNorm ==
    /\ ServiceIdle
    /\ pc = "normalize_trial_balance"
    /\ cent = 1
    /\ table \in {Table(cols, r) :
                      cols \in {AllColumns, RequiredColumns,
                                AllColumns \ {"account"}, {"label"}},
                      r \in SeqUpTo(NormRows, MaxNormRows)}
    /\ df = None /\ raised = None
    /\ prefixes = None /\ params = None /\ turnover = None
    /\ profit_before_tax = None /\ total = None /\ kpi = None
    /\ components = None /\ tax_dict = None /\ vat_balance = None
    /\ tax = None /\ suggs = None /\ warnings = None
    /\ file = None /\ response = None

\* lines 13-22: the ValueError, or the normalized copy
NormCall ==
    /\ pc = "normalize_trial_balance"
    /\ \/ /\ MissingColumns(table)
          /\ raised' = Some("ValueError")
          /\ pc' = "raised"
          /\ df' = df
       \/ /\ ~MissingColumns(table)
          /\ df' = normalize_trial_balance(table)
          /\ pc' = "returned"
          /\ raised' = raised
    /\ UNCHANGED <<serviceVars, file, response, cent, table, prefixes, params, turnover,
                   profit_before_tax, total, kpi, components, tax_dict,
                   vat_balance, tax, suggs, warnings>>

NextNorm == NormCall

SpecNorm == InitNorm /\ [][NextNorm]_vars

----------------------------------------------------------------------------
(* SpecHttp: one request POST /analyze/trial-balance (app/main.py), from   *)
(* the upload to the status of the response.  The call of                  *)
(* analyze_trial_balance at line 339 is the pipeline of Spec.              *)

\* s.endswith(suffix)
EndsWith(s, suffix) ==
    Len(suffix) <= Len(s)
        /\ SubSeq(s, Len(s) - Len(suffix) + 1, Len(s)) = suffix

DotCsv == <<".", "c", "s", "v">>

\* file.filename of the upload
HttpFilenames == {<<"t", "b", ".", "c", "s", "v">>, <<"t", "b", ".", "x", "l", "s">>}

\* column.lower().strip(), on the header cells used below
LowerStrip(name) ==
    CASE name = "Account" -> "account"
      [] name = " Debit" -> "debit"
      [] name = "CREDIT " -> "credit"
      [] OTHER -> name

\* Header lines of the uploaded CSV: complete ones, and ones that lack a
\* required column.
HttpHeaders ==
    {{"account", "label", "debit", "credit"},
     {"Account", " Debit", "CREDIT "},
     {"account", "debit"},
     {"Account", "CREDIT "},
     {" Debit", "credit", "label"}}

MaxHttpRows == 1

\* What pd.read_csv makes of the bytes: a table, or None when it raises.
HttpContents ==
    {None} \cup {Some(Table(h, r)) :
                    h \in HttpHeaders, r \in SeqUpTo(SmokeRows, MaxHttpRows)}

InitHttp ==
    /\ ServiceIdle
    /\ pc = "endpoint"
    /\ cent = 1
    /\ file \in [filename : HttpFilenames, content : HttpContents]
    /\ turnover \in Optional({10000000})
    /\ params \in {ParamsDefault} \cup ParamsBroken
    /\ response = None
    /\ table = None /\ df = None /\ prefixes = None /\ profit_before_tax = None
    /\ total = None /\ kpi = None /\ components = None
    /\ tax_dict = None /\ vat_balance = None /\ tax = None
    /\ suggs = None /\ warnings = None /\ raised = None

\* lines 329-330: the filename test; HTTPException(400) is answered by
\* FastAPI's own handler with its status code.
EndpointCheckFilename ==
    /\ pc = "endpoint"
    /\ \/ /\ ~EndsWith(file.filename, DotCsv)
          /\ response' = Some(400)
          /\ pc' = "responded"
       \/ /\ EndsWith(file.filename, DotCsv)
          /\ response' = response
          /\ pc' = "read_csv"
    /\ UNCHANGED <<serviceVars, file, cent, table, df, prefixes, params, turnover,
                   profit_before_tax, total, kpi, components, tax_dict,
                   vat_balance, tax, suggs, warnings, raised>>

\* lines 333-337: read_csv and the lower-cased, stripped column names; any
\* exception becomes HTTPException(400).
EndpointReadCsv ==
    /\ pc = "read_csv"
    /\ \/ /\ IsNone(file.content)
          /\ response' = Some(400)
          /\ pc' = "responded"
          /\ table' = table
       \/ /\ ~IsNone(file.content)
          /\ table' = Table({LowerStrip(c) : c \in Val(file.content).columns},
                            Val(file.content).rows)
          /\ response' = response
          /\ pc' = "normalize"
    /\ UNCHANGED <<serviceVars, file, cent, df, prefixes, params, turnover,
                   profit_before_tax, total, kpi, components, tax_dict,
                   vat_balance, tax, suggs, warnings, raised>>

\* lines 340-343: JSONResponse(content=result.model_dump()), status 200
EndpointRespond ==
    /\ pc = "done"
    /\ response' = Some(200)
    /\ pc' = "responded"
    /\ UNCHANGED <<serviceVars, file, cent, table, df, prefixes, params, turnover,
                   profit_before_tax, total, kpi, components, tax_dict,
                   vat_balance, tax, suggs, warnings, raised>>

\* lines 607-613: an exception that left the endpoint (none is caught around
\* line 339) is answered by the handler registered for Exception.
global_exception_handler ==
    /\ pc = "failed"
    /\ response' = Some(500)
    /\ pc' = "responded"
    /\ UNCHANGED <<serviceVars, file, cent, table, df, prefixes, params, turnover,
                   profit_before_tax, total, kpi, components, tax_dict,
                   vat_balance, tax, suggs, warnings, raised>>

NextHttp ==
    \/ EndpointCheckFilename
    \/ EndpointReadCsv
    \/ Normalize
    \/ ComputeKpi
    \/ Estimate
    \/ ComputeVat
    \/ Finish
    \/ EndpointRespond
    \/ global_exception_handler

SpecHttp == InitHttp /\ [][NextHttp]_vars

----------------------------------------------------------------------------
(* SpecJson: one request POST /analyze/json (app/main.py), from the body   *)
(* to the status of the response.                                          *)

\* payload["trial_balance"] as pd.DataFrame reads it (None when the key is
\* missing or the value is no table), and payload.get("turnover")
JsonPayloads ==
    [trial_balance : HttpContents, turnover : Optional({10000000})]

InitJson ==
    /\ pc = "analyze_json"
    /\ cent = 1
    /\ payload \in JsonPayloads
    /\ params \in {ParamsDefault} \cup ParamsBroken
    /\ _last_call = None /\ now = None /\ company_id = None
    /\ max_retries = None /\ attempt = None /\ backoff = None
    /\ status_code = None /\ sleeps = None
    /\ file = None /\ response = None /\ turnover = None
    /\ table = None /\ df = None /\ prefixes = None /\ profit_before_tax = None
    /\ total = None /\ kpi = None /\ components = None
    /\ tax_dict = None /\ vat_balance = None /\ tax = None
    /\ suggs = None /\ warnings = None /\ raised = None

\* lines 348-352: the frame built from payload["trial_balance"] and the
\* lower-cased, stripped column names; any exception becomes
\* HTTPException(400).
JsonBuildFrame ==
    /\ pc = "analyze_json"
    /\ \/ /\ IsNone(payload.trial_balance)
          /\ response' = Some(400)
          /\ pc' = "responded"
          /\ table' = table
       \/ /\ ~IsNone(payload.trial_balance)
          /\ table' = Table({LowerStrip(c) :
                                c \in Val(payload.trial_balance).columns},
                            Val(payload.trial_balance).rows)
          /\ response' = response
          /\ pc' = "call"
    /\ UNCHANGED <<serviceVars, file, cent, df, prefixes, params, turnover,
                   profit_before_tax, total, kpi, components, tax_dict,
                   vat_balance, tax, suggs, warnings, raised>>

\* line 354: analyze_trial_balance(df, payload.get("turnover")) passes the
\* turnover by position, and the function takes it by keyword only
\* (analyzers.py:158): the call raises TypeError before the body runs.
JsonCallAnalyze ==
    /\ pc = "call"
    /\ raised' = Some("TypeError")
    /\ pc' = "failed"
    /\ UNCHANGED <<serviceVars, file, response, cent, table, df, prefixes,
                   params, turnover, profit_before_tax, total, kpi,
                   components, tax_dict, vat_balance, tax, suggs, warnings>>

NextJson ==
    \/ JsonBuildFrame
    \/ JsonCallAnalyze
    \/ global_exception_handler

SpecJson == InitJson /\ [][NextJson]_vars

----------------------------------------------------------------------------
(* SpecThrottle: the requests to POST /chat as far as throttle            *)
(* (app/main.py), one after the other.  Times are in half seconds;         *)
(* time.time() counts from 1970, so that the clock is at least one         *)
(* interval past zero when the first request arrives, and it never goes    *)
(* back.                                                                   *)

\* interval=2.0, in half seconds
ThrottleInterval == 4

MaxClock == 12

\* the company ids that require_auth gives
Cids == {"a", "b"}

\* _last_call[cid] of a defaultdict(float): 0.0 for a company never seen
LastCall(calls, cid) == IF cid \in DOMAIN calls THEN calls[cid] ELSE 0

\* d[cid] = t
SetItem(d, cid, t) ==
    [c \in DOMAIN d \cup {cid} |-> IF c = cid THEN t ELSE d[c]]

InitThrottle ==
    /\ pc = "idle"
    /\ cent = 1
    /\ _last_call = [c \in {} |-> 0]
    /\ now \in ThrottleInterval .. MaxClock
    /\ company_id = None
    /\ payload = None /\ max_retries = None /\ attempt = None
    /\ backoff = None /\ status_code = None /\ sleeps = None
    /\ file = None /\ response = None /\ turnover = None /\ params = None
    /\ table = None /\ df = None /\ prefixes = None /\ profit_before_tax = None
    /\ total = None /\ kpi = None /\ components = None
    /\ tax_dict = None /\ vat_balance = None /\ tax = None
    /\ suggs = None /\ warnings = None /\ raised = None

\* the clock moves on
Tick ==
    /\ now < MaxClock
    /\ now' = now + 1
    /\ UNCHANGED <<pc, cent, table, df, prefixes, params, turnover,
                   profit_before_tax, total, kpi, components, tax_dict,
                   vat_balance, tax, suggs, warnings, raised, file, response,
                   payload, _last_call, company_id, max_retries, attempt,
                   backoff, status_code, sleeps>>

\* lines 437-438: a request of company cid reaches chat
ChatRequest(cid) ==
    /\ pc = "idle"
    /\ company_id' = Some(cid)
    /\ response' = None
    /\ pc' = "throttle"
    /\ UNCHANGED <<cent, table, df, prefixes, params, turnover,
                   profit_before_tax, total, kpi, components, tax_dict,
                   vat_balance, tax, suggs, warnings, raised, file,
                   payload, _last_call, now, max_retries, attempt,
                   backoff, status_code, sleeps>>

\* A slip: the time of a rejected call is recorded too.
Throttle_record_rejected(cid, interval) ==
    /\ pc = "throttle"
    /\ company_id = Some(cid)
    /\ _last_call' = SetItem(_last_call, cid, now)
    /\ IF now - LastCall(_last_call, cid) < interval
       THEN /\ response' = Some(429)
            /\ pc' = "rejected"
       ELSE /\ response' = response
            /\ pc' = "accepted"
    /\ UNCHANGED <<cent, table, df, prefixes, params, turnover,
                   profit_before_tax, total, kpi, components, tax_dict,
                   vat_balance, tax, suggs, warnings, raised, file,
                   payload, now, company_id, max_retries, attempt,
                   backoff, status_code, sleeps>>

\* lines 411-415: throttle(cid, interval).  Reading _last_call[cid] puts the
\* default 0.0 in the dictionary when the key is new.
Throttle(cid, interval) ==
    /\ pc = "throttle"
    /\ company_id = Some(cid)
    /\ IF now - LastCall(_last_call, cid) < interval
       THEN /\ _last_call' = SetItem(_last_call, cid, LastCall(_last_call, cid))
            /\ response' = Some(429)
            /\ pc' = "rejected"
       ELSE /\ _last_call' = SetItem(_last_call, cid, now)
            /\ response' = response
            /\ pc' = "accepted"
    /\ UNCHANGED <<cent, table, df, prefixes, params, turnover,
                   profit_before_tax, total, kpi, components, tax_dict,
                   vat_balance, tax, suggs, warnings, raised, file,
                   payload, now, company_id, max_retries, attempt,
                   backoff, status_code, sleeps>>

\* the request is over: answered 429, or handed on to the rest of chat
ChatReturn ==
    /\ pc \in {"accepted", "rejected"}
    /\ pc' = "idle"
    /\ UNCHANGED <<cent, table, df, prefixes, params, turnover,
                   profit_before_tax, total, kpi, components, tax_dict,
                   vat_balance, tax, suggs, warnings, raised, file, response,
                   payload, _last_call, now, company_id, max_retries, attempt,
                   backoff, status_code, sleeps>>

NextThrottle ==
    \/ Tick
    \/ \E cid \in Cids : ChatRequest(cid)
    \/ \E cid \in Cids : Throttle(cid, ThrottleInterval)
    \/ ChatReturn

SpecThrottle == InitThrottle /\ [][NextThrottle]_vars

----------------------------------------------------------------------------
(* SpecRetry: one call of call_openai_with_retry (app/main.py), from the   *)
(* call to the return or the exception.  The function gives up control at  *)
(* the two awaits, client.post and asyncio.sleep; a step runs from one of  *)
(* them to the next.  Waits are in half seconds.                           *)

MaxRetries == 5

\* backoff = 1.5, in half seconds
InitialBackoff == 3

\* r.status_code of the OpenAI API
StatusCodes == {200, 401, 429, 500, 503}

InitRetry ==
    /\ pc = "call_openai_with_retry"
    /\ cent = 1
    /\ max_retries \in 0 .. MaxRetries
    /\ attempt = None /\ backoff = None /\ status_code = None
    /\ sleeps = << >>
    /\ payload = None /\ _last_call = None /\ now = None /\ company_id = None
    /\ file = None /\ response = None /\ turnover = None /\ params = None
    /\ table = None /\ df = None /\ prefixes = None /\ profit_before_tax = None
    /\ total = None /\ kpi = None /\ components = None
    /\ tax_dict = None /\ vat_balance = None /\ tax = None
    /\ suggs = None /\ warnings = None /\ raised = None

\* lines 419-422 and 434: the first wait is set and the loop is entered;
\* with nothing to iterate the HTTPException(429) after the loop is raised.
RetryEnter ==
    /\ pc = "call_openai_with_retry"
    /\ backoff' = Some(InitialBackoff)
    /\ attempt' = Some(0)
    /\ IF 0 < max_retries
       THEN /\ pc' = "post"
            /\ UNCHANGED <<response, raised>>
       ELSE /\ pc' = "raised"
            /\ raised' = Some("HTTPException")
            /\ response' = Some(429)
    /\ UNCHANGED <<cent, table, df, prefixes, params, turnover,
                   profit_before_tax, total, kpi, components, tax_dict,
                   vat_balance, tax, suggs, warnings, file, payload,
                   _last_call, now, company_id, max_retries, status_code,
                   sleeps>>

\* lines 422-426: the request is sent
RetryPost ==
    /\ pc = "post"
    /\ pc' = "await_post"
    /\ UNCHANGED <<cent, table, df, prefixes, params, turnover,
                   profit_before_tax, total, kpi, components, tax_dict,
                   vat_balance, tax, suggs, warnings, raised, file, response,
                   payload, _last_call, now, company_id, max_retries, attempt,
                   backoff, status_code, sleeps>>

\* lines 427-433: the response arrives.  200 returns the reply, 429 starts
\* the wait, any other status raises HTTPException(502).
RetryResponse(code) ==
    /\ pc = "await_post"
    /\ status_code' = Some(code)
    /\ CASE code = 200 ->
              /\ pc' = "returned"
              /\ response' = Some(200)
              /\ UNCHANGED <<raised, sleeps>>
         [] code = 429 ->
              /\ pc' = "sleep"
              /\ sleeps' = Append(sleeps, Val(backoff))
              /\ UNCHANGED <<raised, response>>
         [] OTHER ->
              /\ pc' = "raised"
              /\ raised' = Some("HTTPException")
              /\ response' = Some(502)
              /\ sleeps' = sleeps
    /\ UNCHANGED <<cent, table, df, prefixes, params, turnover,
                   profit_before_tax, total, kpi, components, tax_dict,
                   vat_balance, tax, suggs, warnings, file, payload,
                   _last_call, now, company_id, max_retries, attempt,
                   backoff>>

\* lines 421-426: no response: the client raises (the 40 s timeout, a
\* connection error), nothing in the function catches it, and the handler
\* registered for Exception answers 500.
RetryTransportError ==
    /\ pc = "await_post"
    /\ pc' = "raised"
    /\ raised' = Some("httpx.TransportError")
    /\ response' = Some(500)
    /\ UNCHANGED <<cent, table, df, prefixes, params, turnover,
                   profit_before_tax, total, kpi, components, tax_dict,
                   vat_balance, tax, suggs, warnings, file, payload,
                   _last_call, now, company_id, max_retries, attempt,
                   backoff, status_code, sleeps>>

\* A slip: the wait is not doubled.
RetryWake_constant_wait ==
    /\ pc = "sleep"
    /\ backoff' = backoff
    /\ attempt' = Some(Val(attempt) + 1)
    /\ IF Val(attempt) + 1 < max_retries
       THEN /\ pc' = "post"
            /\ UNCHANGED <<response, raised>>
       ELSE /\ pc' = "raised"
            /\ raised' = Some("HTTPException")
            /\ response' = Some(429)
    /\ UNCHANGED <<cent, table, df, prefixes, params, turnover,
                   profit_before_tax, total, kpi, components, tax_dict,
                   vat_balance, tax, suggs, warnings, file, payload,
                   _last_call, now, company_id, max_retries, status_code,
                   sleeps>>

\* lines 430-432, 422 and 434: the wait is over, the next one is doubled,
\* and the loop goes to its next index, or ends with HTTPException(429).
RetryWake ==
    /\ pc = "sleep"
    /\ backoff' = Some(Val(backoff) * 2)
    /\ attempt' = Some(Val(attempt) + 1)
    /\ IF Val(attempt) + 1 < max_retries
       THEN /\ pc' = "post"
            /\ UNCHANGED <<response, raised>>
       ELSE /\ pc' = "raised"
            /\ raised' = Some("HTTPException")
            /\ response' = Some(429)
    /\ UNCHANGED <<cent, table, df, prefixes, params, turnover,
                   profit_before_tax, total, kpi, components, tax_dict,
                   vat_balance, tax, suggs, warnings, file, payload,
                   _last_call, now, company_id, max_retries, status_code,
                   sleeps>>

NextRetry ==
    \/ RetryEnter
    \/ RetryPost
    \/ \E code \in StatusCodes : RetryResponse(code)
    \/ RetryTransportError
    \/ RetryWake

SpecRetry == InitRetry /\ [][NextRetry]_vars

\* The event loop resumes the coroutine when the awaited post or sleep is
\* over, and both are over in bounded time (timeout=40, a finite wait).
SpecRetryFair == SpecRetry /\ WF_vars(NextRetry)

----------------------------------------------------------------------------
(* SpecConcurrent: two calls of analyze_trial_balance running interleaved  *)
(* (two requests served at once).  The function keeps everything in locals *)
(* and analyzers.py has no module-level variable, so every variable of     *)
(* Spec is here a function of the call; each call loads the configuration  *)
(* document itself (line 159).  Amounts are in whole cents.                *)

Calls == {1, 2}

CallRows ==
    {Row(<<" ", "7", "0", "6", " ">>, Some(0), Some(1000)),
     Row(<<"6", "4", "1">>, Some(450), None),
     Row(<<"4", "1", "1">>, Some(1500), Some(0)),
     Row(<<"4", "4", "5", "7", "1">>, Some(0), Some(200))}

MaxCallRows == 1

CallTables ==
    {Table(AllColumns, r) : r \in SeqUpTo(CallRows, MaxCallRows)}
        \cup {Table(AllColumns \ {"debit"}, << >>)}

CallParams == {ParamsSmall, [pcg_mapping |-> PcgMapping, cit |-> CitSmall]}

InitConcurrent ==
    /\ ServiceIdle
    /\ pc = [c \in Calls |-> "normalize"]
    /\ cent = 1
    /\ table \in [Calls -> CallTables]
    /\ turnover \in [Calls -> Optional({1000})]
    /\ params \in [Calls -> CallParams]
    /\ df = [c \in Calls |-> None]
    /\ kpi = [c \in Calls |-> None]
    /\ components = [c \in Calls |-> None]
    /\ tax_dict = [c \in Calls |-> None]
    /\ vat_balance = [c \in Calls |-> None]
    /\ tax = [c \in Calls |-> None]
    /\ suggs = [c \in Calls |-> None]
    /\ warnings = [c \in Calls |-> None]
    /\ raised = [c \in Calls |-> None]
    /\ prefixes = None /\ profit_before_tax = None /\ total = None
    /\ file = None /\ response = None

\* A slip: the normalized table is kept in a module-level variable that
\* every call reads.
CallNormalize_module_df(c) ==
    /\ pc[c] = "normalize"
    /\ \/ /\ MissingColumns(table[c])
          /\ raised' = [raised EXCEPT ![c] = Some("ValueError")]
          /\ pc' = [pc EXCEPT ![c] = "failed"]
          /\ df' = df
       \/ /\ ~MissingColumns(table[c])
          /\ df' = [d \in Calls |-> normalize_trial_balance(table[c])]
          /\ pc' = [pc EXCEPT ![c] = "compute_kpi"]
          /\ raised' = raised
    /\ UNCHANGED <<serviceVars, file, response, cent, table, prefixes, params, turnover,
                   profit_before_tax, total, kpi, components, tax_dict,
                   vat_balance, tax, suggs, warnings>>

\* line 160, in call c
CallNormalize(c) ==
    /\ pc[c] = "normalize"
    /\ \/ /\ MissingColumns(table[c])
          /\ raised' = [raised EXCEPT ![c] = Some("ValueError")]
          /\ pc' = [pc EXCEPT ![c] = "failed"]
          /\ df' = df
       \/ /\ ~MissingColumns(table[c])
          /\ df' = [df EXCEPT ![c] = normalize_trial_balance(table[c])]
          /\ pc' = [pc EXCEPT ![c] = "compute_kpi"]
          /\ raised' = raised
    /\ UNCHANGED <<serviceVars, file, response, cent, table, prefixes, params, turnover,
                   profit_before_tax, total, kpi, components, tax_dict,
                   vat_balance, tax, suggs, warnings>>

\* line 161, in call c
CallComputeKpi(c) ==
    /\ pc[c] = "compute_kpi"
    /\ \/ /\ "pcg_mapping" \notin DOMAIN params[c]
          /\ raised' = [raised EXCEPT ![c] = Some("KeyError")]
          /\ pc' = [pc EXCEPT ![c] = "failed"]
          /\ UNCHANGED <<kpi, components>>
       \/ /\ "pcg_mapping" \in DOMAIN params[c]
          /\ kpi' = [kpi EXCEPT ![c] = compute_kpi(df[c], params[c]).kpi]
          /\ components' =
                [components EXCEPT ![c] = compute_kpi(df[c], params[c]).components]
          /\ pc' = [pc EXCEPT ![c] = "estimate"]
          /\ raised' = raised
    /\ UNCHANGED <<serviceVars, file, response, cent, table, df, prefixes, params, turnover,
                   profit_before_tax, total, tax_dict, vat_balance, tax, suggs,
                   warnings>>

\* lines 164-165, in call c
CallEstimate(c) ==
    /\ pc[c] = "estimate"
    /\ \/ /\ "cit" \notin DOMAIN params[c]
          /\ raised' = [raised EXCEPT ![c] = Some("KeyError")]
          /\ pc' = [pc EXCEPT ![c] = "failed"]
          /\ tax_dict' = tax_dict
       \/ /\ "cit" \in DOMAIN params[c]
          /\ tax_dict' =
                [tax_dict EXCEPT
                    ![c] = estimate(kpi[c].net_result, turnover[c], params[c])]
          /\ pc' = [pc EXCEPT ![c] = "compute_vat"]
          /\ raised' = raised
    /\ UNCHANGED <<serviceVars, file, response, cent, table, df, prefixes, params, turnover,
                   profit_before_tax, total, kpi, components, vat_balance, tax,
                   suggs, warnings>>

\* line 167, in call c
CallComputeVat(c) ==
    /\ pc[c] = "compute_vat"
    /\ \/ /\ "vat" \notin DOMAIN params[c]
          /\ raised' = [raised EXCEPT ![c] = Some("KeyError")]
          /\ pc' = [pc EXCEPT ![c] = "failed"]
          /\ vat_balance' = vat_balance
       \/ /\ "vat" \in DOMAIN params[c]
          /\ vat_balance' =
                [vat_balance EXCEPT ![c] = compute_vat(df[c], params[c])]
          /\ pc' = [pc EXCEPT ![c] = "suggestions"]
          /\ raised' = raised
    /\ UNCHANGED <<serviceVars, file, response, cent, table, df, prefixes, params, turnover,
                   profit_before_tax, total, kpi, components, tax_dict, tax,
                   suggs, warnings>>

\* A slip: the warnings list is created once, at module level, and every
\* call appends to what the earlier calls left in it.
CallFinish_module_warnings(c) ==
    /\ pc[c] = "suggestions"
    /\ tax' = [tax EXCEPT
                  ![c] = TaxEstimate(kpi[c], turnover[c], tax_dict[c],
                                     vat_balance[c])]
    /\ suggs' = [suggs EXCEPT ![c] = suggestions(kpi[c], tax'[c], components[c])]
    /\ warnings' =
          LET d == CHOOSE x \in Calls : x # c
              earlier == IF pc[d] = "done" THEN warnings[d] ELSE << >>
          IN  [warnings EXCEPT ![c] = earlier \o Warnings(turnover[c])]
    /\ pc' = [pc EXCEPT ![c] = "done"]
    /\ UNCHANGED <<serviceVars, file, response, cent, table, df, prefixes, params, turnover,
                   profit_before_tax, total, kpi, components, tax_dict,
                   vat_balance, raised>>

\* lines 168-184, in call c
CallFinish(c) ==
    /\ pc[c] = "suggestions"
    /\ tax' = [tax EXCEPT
                  ![c] = TaxEstimate(kpi[c], turnover[c], tax_dict[c],
                                     vat_balance[c])]
    /\ suggs' = [suggs EXCEPT ![c] = suggestions(kpi[c], tax'[c], components[c])]
    /\ warnings' = [warnings EXCEPT ![c] = Warnings(turnover[c])]
    /\ pc' = [pc EXCEPT ![c] = "done"]
    /\ UNCHANGED <<serviceVars, file, response, cent, table, df, prefixes, params, turnover,
                   profit_before_tax, total, kpi, components, tax_dict,
                   vat_balance, raised>>

NextConcurrent ==
    \/ \E c \in Calls : CallNormalize(c)
    \/ \E c \in Calls : CallComputeKpi(c)
    \/ \E c \in Calls : CallEstimate(c)
    \/ \E c \in Calls : CallComputeVat(c)
    \/ \E c \in Calls : CallFinish(c)

SpecConcurrent == InitConcurrent /\ [][NextConcurrent]_vars

----------------------------------------------------------------------------
(* The configured tax constants as the engine reads them (value of the     *)
(* cit section, else the default), and what "rounded to 2 decimals" means. *)

CfgCeiling ==
    Get(params["cit"], "sme_turnover_ceiling", Euros(sme_turnover_ceiling_default))

CfgReducedCap ==
    Get(params["cit"], "sme_reduced_threshold", Euros(sme_reduced_threshold_default))

CfgStandardRate == Get(params["cit"], "standard_rate", standard_rate_default)

CfgReducedRate == Get(params["cit"], "sme_reduced_rate", sme_reduced_rate_default)

CfgScRate ==
    Get(params["cit"], "social_contribution_rate", social_contribution_rate_default)

CfgScThreshold ==
    Get(params["cit"], "social_contribution_turnover_threshold",
        Euros(social_contribution_turnover_threshold_default))

CfgScAllowance ==
    Get(params["cit"], "social_contribution_allowance",
        Euros(social_contribution_allowance_default))

\* out is a whole number of cents nearest to the exact value x (at a tie,
\* either neighbour).
NearestCent(out, x) ==
    /\ out % cent = 0
    /\ 2 * Abs(out * x.d - x.n) <= cent * x.d

\* reduced_base * reduced_rate + standard_base * standard_rate of the returned
\* details, before rounding.
DetailsCit ==
    LET rb == tax_dict.details.reduced_base
        sb == tax_dict.details.standard_base
        D == LCM(CfgReducedRate.d, CfgStandardRate.d)
    IN  Rat(rb * CfgReducedRate.n * (D \div CfgReducedRate.d)
              + sb * CfgStandardRate.n * (D \div CfgStandardRate.d), D)

NonNegativeRatesAndCap ==
    /\ CfgStandardRate.n >= 0
    /\ CfgReducedRate.n >= 0
    /\ CfgScRate.n >= 0
    /\ CfgReducedCap >= 0

----------------------------------------------------------------------------
(* C1 *)

\* C1 as claimed: under non-negative rates and a non-negative reduced-rate
\* cap, estimate returns corporate_income_tax >= 0, and for
\* profit_before_tax <= 0 it returns corporate_income_tax = 0 and
\* social_contribution_on_cit = 0.
C1_AsClaimed ==
    (pc = "returned" /\ NonNegativeRatesAndCap) =>
        /\ tax_dict.corporate_income_tax >= 0
        /\ profit_before_tax <= 0 =>
              /\ tax_dict.corporate_income_tax = 0
              /\ tax_dict.social_contribution_on_cit = 0

\* C1 amended: under non-negative rates and a non-negative reduced-rate cap,
\* estimate returns corporate_income_tax >= 0, and for profit_before_tax <= 0
\* it returns corporate_income_tax = 0; social_contribution_on_cit is then 0
\* as well when the surtax allowance is non-negative, and otherwise (negative
\* allowance) it is 0 unless the turnover is above the surtax threshold, where
\* it is rate * (0 - allowance) rounded to cents.
C1_NonNegativeTax ==
    (pc = "returned" /\ NonNegativeRatesAndCap) =>
        /\ tax_dict.corporate_income_tax >= 0
        /\ profit_before_tax <= 0 =>
              /\ tax_dict.corporate_income_tax = 0
              /\ CfgScAllowance >= 0 =>
                    tax_dict.social_contribution_on_cit = 0
              /\ CfgScAllowance < 0 =>
                    IF ~IsNone(turnover) /\ Val(turnover) > CfgScThreshold
                    THEN NearestCent(tax_dict.social_contribution_on_cit,
                                     Rat(CfgScRate.n * (0 - CfgScAllowance),
                                         CfgScRate.d))
                    ELSE tax_dict.social_contribution_on_cit = 0

\* A loss, a turnover above the surtax threshold, a non-negative allowance:
\* both taxes are 0.
C1_Witness ==
    /\ pc = "returned"
    /\ NonNegativeRatesAndCap
    /\ CfgScAllowance >= 0
    /\ profit_before_tax < 0
    /\ ~IsNone(turnover) /\ Val(turnover) > CfgScThreshold
    /\ tax_dict.corporate_income_tax = 0
    /\ tax_dict.social_contribution_on_cit = 0

----------------------------------------------------------------------------
(* C3 *)

\* C3: with profit = max(0, profit_before_tax), reduced_base is
\* min(profit, reduced_cap) when the returned eligibility is True and 0 when
\* it is False or None, standard_base is profit - reduced_base, and
\* corporate_income_tax is reduced_base * reduced_rate + standard_base *
\* standard_rate rounded to cents.
C3_TaxBases ==
    pc = "returned" =>
        LET profit == IF profit_before_tax > 0 THEN profit_before_tax ELSE 0
            rb == tax_dict.details.reduced_base
            sb == tax_dict.details.standard_base
        IN  /\ tax_dict.eligible_sme_reduced_rate = Some(TRUE) =>
                  rb = (IF profit <= CfgReducedCap THEN profit ELSE CfgReducedCap)
            /\ tax_dict.eligible_sme_reduced_rate # Some(TRUE) => rb = 0
            /\ sb = profit - rb
            /\ NearestCent(tax_dict.corporate_income_tax, DetailsCit)

\* An eligible company whose profit exceeds the cap: both slices are taxed.
C3_Witness ==
    /\ pc = "returned"
    /\ tax_dict.eligible_sme_reduced_rate = Some(TRUE)
    /\ profit_before_tax > CfgReducedCap
    /\ CfgReducedCap > 0
    /\ tax_dict.details.reduced_base = CfgReducedCap
    /\ tax_dict.details.standard_base > 0
    /\ tax_dict.corporate_income_tax > 0

----------------------------------------------------------------------------
(* C4 *)

DefaultSurtaxConstants ==
    DOMAIN params["cit"] \cap {"social_contribution_rate",
                               "social_contribution_turnover_threshold",
                               "social_contribution_allowance"} = {}

SurtaxApplies ==
    /\ ~IsNone(turnover)
    /\ Val(turnover) > CfgScThreshold
    /\ DetailsCit.n > CfgScAllowance * DetailsCit.d

\* social_contribution_rate * (cit - allowance), before rounding
ExactSurtax ==
    Rat(CfgScRate.n * (DetailsCit.n - CfgScAllowance * DetailsCit.d),
        CfgScRate.d * DetailsCit.d)

SurtaxRule ==
    /\ tax_dict.social_contribution_on_cit # 0 => SurtaxApplies
    /\ SurtaxApplies => NearestCent(tax_dict.social_contribution_on_cit, ExactSurtax)
    /\ ~SurtaxApplies => tax_dict.social_contribution_on_cit = 0

DefaultSurtaxCase ==
    /\ DefaultSurtaxConstants
    /\ turnover = Some(Euros(8000000))
    /\ DetailsCit.n > Euros(social_contribution_allowance_default) * DetailsCit.d

\* C4 as claimed: the surtax is non-zero only when the turnover is known and
\* above the threshold and the tax is above the allowance, where it is
\* rate * (cit - allowance) rounded to cents, and 0 otherwise; and with the
\* default constants a turnover of 8,000,000 and a tax above 763,000 yield a
\* surtax > 0.
C4_AsClaimed ==
    pc = "returned" =>
        /\ SurtaxRule
        /\ DefaultSurtaxCase => tax_dict.social_contribution_on_cit > 0

\* C4 amended: the same rule; with the default constants, a turnover of
\* 8,000,000 and a tax above 763,000 the surtax is 0.033 * (cit - 763000)
\* rounded to cents, which is > 0 when 0.033 * (cit - 763000) > 0.005 and is 0
\* when 0.033 * (cit - 763000) < 0.005.
C4_Surtax ==
    pc = "returned" =>
        /\ SurtaxRule
        /\ DefaultSurtaxCase =>
              /\ NearestCent(tax_dict.social_contribution_on_cit, ExactSurtax)
              /\ 2 * ExactSurtax.n > cent * ExactSurtax.d =>
                    tax_dict.social_contribution_on_cit > 0
              /\ 2 * ExactSurtax.n < cent * ExactSurtax.d =>
                    tax_dict.social_contribution_on_cit = 0

\* Default constants, turnover 8,000,000, tax above 763,000, surtax paid.
C4_Witness ==
    /\ pc = "returned"
    /\ DefaultSurtaxCase
    /\ tax_dict.corporate_income_tax > Euros(social_contribution_allowance_default)
    /\ tax_dict.social_contribution_on_cit > 0

----------------------------------------------------------------------------
(* What the claims say of the rows: "starts with", the rows a prefix list  *)
(* selects, and the sum of debit - credit over a set of rows.              *)

IsPrefixOf(p, a) ==
    /\ Len(p) <= Len(a)
    /\ \A k \in 1 .. Len(p) : a[k] = p[k]

MatchingRows(d, ps) ==
    {i \in 1 .. Len(d) : \E j \in 1 .. Len(ps) : IsPrefixOf(ps[j], d[i].account)}

RECURSIVE BalanceOver(_, _)
BalanceOver(d, I) ==
    IF I = {} THEN 0
    ELSE LET i == CHOOSE x \in I : TRUE
         IN  (d[i].debit - d[i].credit) + BalanceOver(d, I \ {i})

\* The sum of the balances of the rows of df that a prefix list selects.
Bucket(ps) == BalanceOver(df, MatchingRows(df, ps))

\* 1e-6 in units, rounded up: a whole number x of units is < 1e-6 iff
\* x < MicroUnits.
MicroUnits == (cent + 9999) \div 10000

InRange(seq, x) == \E i \in 1 .. Len(seq) : seq[i] = x

----------------------------------------------------------------------------
(* C2 *)

\* C2: eligible_sme_reduced_rate is None for an unknown turnover, False for a
\* turnover strictly above sme_turnover_ceiling and True for a turnover at or
\* below it; analyze_trial_balance emits CIT_15_SME if and only if the value
\* is True.
C2_EligibilityTriState ==
    pc = "done" =>
        /\ IsNone(turnover) => tax.eligible_sme_reduced_rate = None
        /\ (~IsNone(turnover) /\ Val(turnover) > CfgCeiling) =>
              tax.eligible_sme_reduced_rate = Some(FALSE)
        /\ (~IsNone(turnover) /\ Val(turnover) <= CfgCeiling) =>
              tax.eligible_sme_reduced_rate = Some(TRUE)
        /\ InRange(suggs, "CIT_15_SME") <=>
              tax.eligible_sme_reduced_rate = Some(TRUE)

\* A turnover equal to the ceiling: eligible, and the rule fires.
C2_Witness ==
    /\ pc = "done"
    /\ turnover = Some(CfgCeiling)
    /\ tax.eligible_sme_reduced_rate = Some(TRUE)
    /\ InRange(suggs, "CIT_15_SME")

----------------------------------------------------------------------------
(* C5 *)

\* C5: prefix_sum returns the sum of debit - credit over exactly the rows
\* whose account starts with at least one prefix of the list, each such row
\* counted once; it returns 0 for an empty list and when no row matches.
C5_PrefixSum ==
    pc = "returned" =>
        /\ total = Some(Bucket(prefixes))
        /\ prefixes = << >> => total = Some(0)
        /\ MatchingRows(df, prefixes) = {} => total = Some(0)

\* A row that starts with two prefixes of the list is counted once, and a row
\* that holds the prefix 512 after 999 is not counted.
C5_Witness ==
    /\ pc = "returned"
    /\ prefixes = << <<"5", "1">>, <<"5", "1", "2">> >>
    /\ Len(df) = 2
    /\ df[1].account = <<"5", "1", "2", "0">>
    /\ df[2].account = <<"9", "9", "9", "5", "1", "2">>
    /\ df[1].balance # 0
    /\ df[2].balance # 0
    /\ total = Some(df[1].balance)

----------------------------------------------------------------------------
(* C6 *)

PcgBucket(key) == Bucket(params["pcg_mapping"][key])

\* C6: the bucket sums carry a sign flip for revenue, financial income and
\* exceptional income only, and the KPI are, rounded to cents,
\* gross_margin = revenue - purchases, ebitda_approx = revenue - purchases -
\* external_charges - taxes - payroll, net_result = ebitda_approx -
\* depreciation + fin_income - fin_expenses + excep_income - excep_expenses,
\* working_capital_need = receivables - payables; a single sales row with
\* credit 100000 gives kpi.revenue = 100000.
C6_KpiFormulas ==
    (kpi # None) =>
        LET c == components
            ebitda == c.revenue - c.purchases - c.external - c.taxes - c.payroll
        IN  /\ c.revenue = 0 - PcgBucket("sales_prefix")
            /\ c.fin_income = 0 - PcgBucket("financial_income_prefix")
            /\ c.excep_income = 0 - PcgBucket("exceptional_income_prefix")
            /\ c.purchases = PcgBucket("purchases_prefix")
            /\ c.external = PcgBucket("external_charges_prefix")
            /\ c.taxes = PcgBucket("taxes_prefix")
            /\ c.payroll = PcgBucket("payroll_prefix")
            /\ c.depreciation = PcgBucket("depreciation_prefix")
            /\ c.fin_exp = PcgBucket("financial_expenses_prefix")
            /\ c.excep_exp = PcgBucket("exceptional_expenses_prefix")
            /\ c.cash = PcgBucket("cash_prefix")
            /\ c.receivables = PcgBucket("receivables_prefix")
            /\ c.payables = PcgBucket("payables_prefix")
            /\ NearestCent(kpi.revenue, Rat(c.revenue, 1))
            /\ NearestCent(kpi.gross_margin, Rat(c.revenue - c.purchases, 1))
            /\ NearestCent(kpi.ebitda_approx, Rat(ebitda, 1))
            /\ NearestCent(kpi.net_result,
                           Rat(ebitda - c.depreciation + c.fin_income - c.fin_exp
                                 + c.excep_income - c.excep_exp, 1))
            /\ NearestCent(kpi.working_capital_need,
                           Rat(c.receivables - c.payables, 1))
            /\ (cent = 1 /\ Len(df) = 1
                  /\ IsPrefixOf(params["pcg_mapping"]["sales_prefix"][1],
                                df[1].account)
                  /\ df[1].debit = 0 /\ df[1].credit = Euros(100000)) =>
                  kpi.revenue = Euros(100000)

\* Sales credited 100000 and financial income in one table: revenue 100000,
\* and the financial income adds to the net result.
C6_Witness ==
    /\ pc = "done"
    /\ cent = 1
    /\ Len(df) = 2
    /\ df[1].account = <<"7", "0", "1">>
    /\ df[1].credit = Euros(100000)
    /\ df[2].account = <<"7", "6", "1">>
    /\ kpi.revenue = Euros(100000)
    /\ components.fin_income > 0
    /\ kpi.net_result = Euros(100000) + components.fin_income

----------------------------------------------------------------------------
(* C7, C8, C9 *)

Collected == Bucket(params["vat"]["collected_accounts_prefix"])

Deductible == Bucket(params["vat"]["deductible_accounts_prefix"])

VatRowPresent ==
    MatchingRows(df, params["vat"]["collected_accounts_prefix"])
      \cup MatchingRows(df, params["vat"]["deductible_accounts_prefix"]) # {}

\* abs(collected) + abs(deductible) < 1e-6
VatSumsBelowMicro == Abs(Collected) + Abs(Deductible) < MicroUnits

\* C7 as claimed: without any row matching a VAT prefix compute_vat returns
\* null; with collected and deductible sums that are non-zero and offset each
\* other exactly it returns the number 0.
C7_AsClaimed ==
    pc = "returned" =>
        /\ ~VatRowPresent => vat_balance = None
        /\ (Collected # 0 /\ Deductible # 0 /\ Collected + Deductible = 0) =>
              vat_balance = Some(0)

\* C7 amended: without any row matching a VAT prefix compute_vat returns
\* null; with collected and deductible sums that are non-zero and offset each
\* other exactly it returns the number 0 when abs(collected) +
\* abs(deductible) >= 1e-6, and null when that sum is below 1e-6.
C7_VatNullVersusZero ==
    pc = "returned" =>
        /\ ~VatRowPresent => vat_balance = None
        /\ (Collected # 0 /\ Deductible # 0 /\ Collected + Deductible = 0) =>
              IF VatSumsBelowMicro THEN vat_balance = None
              ELSE vat_balance = Some(0)

\* Collected and deductible VAT of 0.20 each: the balance is the number 0.
C7_Witness ==
    /\ pc = "returned"
    /\ Collected # 0 /\ Deductible # 0
    /\ Collected + Deductible = 0
    /\ ~VatSumsBelowMicro
    /\ vat_balance = Some(0)

\* C8 as claimed: compute_vat returns null if and only if no row matches a
\* collected or deductible VAT prefix.
C8_AsClaimed ==
    pc = "returned" => (vat_balance = None <=> ~VatRowPresent)

\* C8 amended: compute_vat returns null if and only if abs(collected) +
\* abs(deductible) < 1e-6; so it returns null when no row matches a VAT
\* prefix, and also when the matching rows sum to (nearly) zero in both
\* buckets; a numeric result implies that some row matches a VAT prefix.
C8_VatNullIffSumsNearZero ==
    pc = "returned" =>
        /\ vat_balance = None <=> VatSumsBelowMicro
        /\ ~VatRowPresent => vat_balance = None
        /\ vat_balance # None => VatRowPresent

\* VAT rows are present, their bucket sums are not 0 but below 1e-6: null.
C8_Witness ==
    /\ pc = "returned"
    /\ VatRowPresent
    /\ Abs(Collected) + Abs(Deductible) > 0
    /\ VatSumsBelowMicro
    /\ vat_balance = None

\* C9 as claimed: a non-null result is -(collected) - deductible rounded to
\* cents, positive exactly when the credit balance of the collected accounts
\* exceeds the debit balance of the deductible accounts, and negative when the
\* deductible balance exceeds it.
C9_AsClaimed ==
    (pc = "returned" /\ vat_balance # None) =>
        /\ NearestCent(Val(vat_balance), Rat(0 - Collected - Deductible, 1))
        /\ Val(vat_balance) > 0 <=> 0 - Collected > Deductible
        /\ 0 - Collected < Deductible => Val(vat_balance) < 0

\* C9 amended: a non-null result is -(collected) - deductible rounded to
\* cents; it is positive only when the credit balance of the collected
\* accounts exceeds the debit balance of the deductible accounts and negative
\* only when it is smaller; it is positive (negative) whenever the difference
\* exceeds half a cent, and it is 0 when the difference is below half a cent.
C9_VatBalanceSign ==
    (pc = "returned" /\ vat_balance # None) =>
        LET due == 0 - Collected - Deductible
        IN  /\ NearestCent(Val(vat_balance), Rat(due, 1))
            /\ Val(vat_balance) > 0 => due > 0
            /\ Val(vat_balance) < 0 => due < 0
            /\ 2 * due > cent => Val(vat_balance) > 0
            /\ 2 * due < 0 - cent => Val(vat_balance) < 0
            /\ 2 * Abs(due) < cent => Val(vat_balance) = 0

\* Collected VAT of 0.20 against deductible VAT of 0.004: 0.20 is payable.
C9_Witness ==
    /\ pc = "returned"
    /\ Collected < 0
    /\ Deductible > 0
    /\ 0 - Collected > Deductible
    /\ vat_balance # None
    /\ Val(vat_balance) > 0
    /\ Val(vat_balance) # 0 - Collected - Deductible

----------------------------------------------------------------------------
(* C10 *)

\* q is 100 * e / r in hundredths of a percent, rounded to the nearest
\* (r > 0): |q * r - 10000 * e| <= r / 2, the products split at 10^4.
IsRoundedPct(q, e, r) ==
    LET a == e \div r
        b == e % r
        qq == q - 10000 * a
        h == qq * (r \div 10000) - b
    IN  /\ qq >= 0 /\ qq <= 10000
        /\ Abs(h) <= 20000
        /\ 2 * Abs(h * 10000 + qq * (r % 10000)) <= r

\* C10: when the revenue is 0, ebitda_margin_pct is null, neither compute_kpi
\* nor suggestions raises, and WCR_HIGH and CIR_CII_CHECK compare against
\* 0.1 * 1 and 0.4 * 1; when the revenue is not 0, ebitda_margin_pct is the
\* number ebitda_approx / revenue * 100 (rounded to 2 decimals).
C10_ZeroRevenueSafety ==
    (kpi # None) =>
        LET c == components
            ebitda == c.revenue - c.purchases - c.external - c.taxes - c.payroll
        IN  /\ c.revenue = 0 =>
                  /\ kpi.ebitda_margin_pct = None
                  /\ kpi.revenue = 0
                  /\ pc = "failed" => "cit" \notin DOMAIN params \/ "vat" \notin DOMAIN params
                  /\ pc = "done" =>
                        /\ InRange(suggs, "WCR_HIGH") <=>
                              10 * kpi.working_capital_need > Euros(1)
                        /\ InRange(suggs, "CIR_CII_CHECK") <=>
                              10 * (c.external + c.payroll) > 4 * Euros(1)
            /\ c.revenue # 0 =>
                  /\ kpi.ebitda_margin_pct # None
                  /\ IF c.revenue > 0
                     THEN IsRoundedPct(Val(kpi.ebitda_margin_pct), ebitda, c.revenue)
                     ELSE IsRoundedPct(Val(kpi.ebitda_margin_pct), 0 - ebitda,
                                       0 - c.revenue)

\* No sales, payroll charges: the margin is null and CIR_CII_CHECK fires on
\* the comparison with 0.4 * 1.
C10_Witness ==
    /\ pc = "done"
    /\ components.revenue = 0
    /\ kpi.ebitda_margin_pct = None
    /\ components.payroll > 0
    /\ InRange(suggs, "CIR_CII_CHECK")
    /\ ~InRange(suggs, "WCR_HIGH")

----------------------------------------------------------------------------
(* C11  The list suggestions() returns is a subsequence of the fixed order *)
(* EBITDA_LOW, WCR_HIGH, CIT_15_SME, CIR_CII_CHECK, VAT_NET_PAYABLE (each  *)
(* id at most once, no other id, relative order fixed), and the call       *)
(* leaves the KPI, the TaxEstimate and the bucket sums as they were.       *)

SuggestionOrder ==
    <<"EBITDA_LOW", "WCR_HIGH", "CIT_15_SME", "CIR_CII_CHECK", "VAT_NET_PAYABLE">>

\* s can be obtained from full by deleting elements
RECURSIVE IsSubsequence(_, _)
IsSubsequence(s, full) ==
    IF s = << >> THEN TRUE
    ELSE IF full = << >> THEN FALSE
    ELSE IF Head(s) = Head(full) THEN IsSubsequence(Tail(s), Tail(full))
    ELSE IsSubsequence(s, Tail(full))

\* C11: the returned ids are a subsequence of the fixed order, and no step
\* changes the KPI, the TaxEstimate or the bucket sums passed in.
C11_SuggestionOrder ==
    /\ [](pc = "returned" => IsSubsequence(suggs, SuggestionOrder))
    /\ [][UNCHANGED <<kpi, tax, components>>]_vars

\* A call where the five rules fired.
C11_Witness == pc = "returned" /\ suggs = SuggestionOrder

----------------------------------------------------------------------------
(* C12  Each rule is emitted exactly when its own predicate holds,         *)
(* whatever the other rules do.  Amounts are compared exactly; an exact    *)
(* tie need = 0.1 * revenue or charges = 0.4 * revenue is left open.       *)

Emitted(id) == \E i \in 1 .. Len(suggs) : suggs[i] = id

\* kpi.revenue, replaced by 1 when it is 0
RevenueOrOne == IF kpi.revenue = 0 THEN Euros(1) ELSE kpi.revenue

\* external charges plus payroll, a missing entry counting for 0
ExternalAndPayroll ==
    (IF "external" \in DOMAIN components THEN components["external"] ELSE 0)
    + (IF "payroll" \in DOMAIN components THEN components["payroll"] ELSE 0)

----------------------------------------------------------------------------
(* C13  Without a turnover the call degrades instead of failing: on a      *)
(* table with the required columns and a complete configuration it does    *)
(* not fail, the result carries exactly the fixed warning, an unknown      *)
(* eligibility and no surtax; with a turnover (0 included) the warnings    *)
(* are empty.                                                              *)

RequiredSections == {"pcg_mapping", "vat", "cit"}

\* the input table has no account, no debit or no credit column
LacksRequiredColumn ==
    \E c \in {"account", "debit", "credit"} : c \notin table.columns

\* a table with the required columns and a document with its three sections
ValidCall ==
    ~LacksRequiredColumn /\ RequiredSections \subseteq DOMAIN params

\* C13: a valid call never fails; its warnings hold the one fixed entry
\* exactly when turnover is None, and then the eligibility is null and the
\* surtax 0.
C13_TurnoverDegradation ==
    /\ ValidCall => pc # "failed"
    /\ pc = "done" =>
          /\ IsNone(turnover) =>
                /\ warnings = <<LimitedInferenceWarning>>
                /\ tax.eligible_sme_reduced_rate = None
                /\ tax.social_contribution_on_cit = 0
          /\ ~IsNone(turnover) => warnings = << >>
          /\ (warnings # << >>) <=> IsNone(turnover)

\* A profitable company analysed without turnover.
C13_Witness ==
    /\ pc = "done"
    /\ IsNone(turnover)
    /\ tax.corporate_income_tax > 0
    /\ Len(warnings) = 1

----------------------------------------------------------------------------
(* C14  A table lacking account, debit or credit makes the call raise at   *)
(* normalization, before anything is computed; a table with the three      *)
(* columns passes normalization whatever its cells hold.                   *)

\* nothing of an AnalysisResult has been produced
NothingProduced ==
    /\ df = None /\ kpi = None /\ components = None /\ tax_dict = None
    /\ vat_balance = None /\ tax = None /\ suggs = None /\ warnings = None

\* C14: with a required column missing the call ends in the ValueError of
\* normalization with no KPI, tax estimate, suggestion or warning; with the
\* three columns present normalization does not raise.
C14_FailFastValidation ==
    /\ LacksRequiredColumn =>
          /\ NothingProduced
          /\ pc \in {"normalize", "failed"}
          /\ pc = "failed" => raised = Some("ValueError")
    /\ ~LacksRequiredColumn =>
          /\ raised # Some("ValueError")
          /\ pc # "normalize" => Len(df) = Len(table.rows)

\* A table with rows but no debit column, after the call has raised.
C14_Witness ==
    /\ pc = "failed"
    /\ "debit" \notin table.columns
    /\ Len(table.rows) > 0
    /\ raised = Some("ValueError")

----------------------------------------------------------------------------
(* C15  POST /analyze/trial-balance with a readable CSV that lacks a       *)
(* required column is answered with a 4xx status, never a 5xx one.         *)

\* the upload is a .csv that read_csv accepts
ReadableCsv ==
    /\ EndsWith(file.filename, DotCsv)
    /\ ~IsNone(file.content)

\* the header, lower-cased and stripped, lacks account, debit or credit
UploadLacksRequiredColumn ==
    \E c \in {"account", "debit", "credit"} :
        c \notin {LowerStrip(h) : h \in Val(file.content).columns}

\* C15, as claimed: the response to a readable CSV without one of the
\* required columns has a status in 400..499.
C15_AsClaimed ==
    (pc = "responded" /\ ReadableCsv /\ UploadLacksRequiredColumn) =>
        (Val(response) >= 400 /\ Val(response) <= 499)

----------------------------------------------------------------------------
(* C16  Two calls of analyze_trial_balance with the same rows, the same    *)
(* turnover and the same configuration end the same way: the same KPI, tax *)
(* estimate, suggestions and warnings, or the same exception.              *)

Ended(c) == pc[c] \in {"done", "failed"}

SameInputs ==
    /\ table[1] = table[2]
    /\ turnover[1] = turnover[2]
    /\ params[1] = params[2]

----------------------------------------------------------------------------
(* C17  Calls of analyze_trial_balance that run interleaved do not         *)
(* interfere: at every point each call holds what it would hold when run   *)
(* alone on its own table, turnover and configuration, and a step of one   *)
(* call leaves the other call's values untouched.                          *)

\* what call c computes when it runs alone, step by step
AloneDf(c) == normalize_trial_balance(table[c])

AloneKpi(c) == compute_kpi(AloneDf(c), params[c])

AloneTaxDict(c) == estimate(AloneKpi(c).kpi.net_result, turnover[c], params[c])

AloneVat(c) == compute_vat(AloneDf(c), params[c])

AloneTax(c) ==
    TaxEstimate(AloneKpi(c).kpi, turnover[c], AloneTaxDict(c), AloneVat(c))

\* the values of call c so far are those of the run alone
AsAlone(c) ==
    /\ pc[c] \in {"compute_kpi", "estimate", "compute_vat", "suggestions", "done"}
          => df[c] = AloneDf(c)
    /\ pc[c] \in {"estimate", "compute_vat", "suggestions", "done"} =>
          /\ kpi[c] = AloneKpi(c).kpi
          /\ components[c] = AloneKpi(c).components
    /\ pc[c] \in {"compute_vat", "suggestions", "done"}
          => tax_dict[c] = AloneTaxDict(c)
    /\ pc[c] \in {"suggestions", "done"} => vat_balance[c] = AloneVat(c)
    /\ pc[c] = "done" =>
          /\ tax[c] = AloneTax(c)
          /\ suggs[c] = suggestions(AloneKpi(c).kpi, AloneTax(c),
                                    AloneKpi(c).components)
          /\ warnings[c] = Warnings(turnover[c])
    /\ pc[c] = "failed" =>
          \/ /\ raised[c] = Some("ValueError")
             /\ ~({"account", "debit", "credit"} \subseteq table[c].columns)
          \/ /\ raised[c] = Some("KeyError")
             /\ ~({"pcg_mapping", "vat", "cit"} \subseteq DOMAIN params[c])

\* the values held for call c
Locals(c) ==
    <<pc[c], table[c], turnover[c], params[c], df[c], kpi[c], components[c],
      tax_dict[c], vat_balance[c], tax[c], suggs[c], warnings[c], raised[c]>>

\* a step changes the values of one call only
OneCallPerStep ==
    \E c \in Calls : \A d \in Calls \ {c} : Locals(d)' = Locals(d)

\* C17: every call equals its run alone at every point of every
\* interleaving, and no step of a call touches another call's values.
C17_Reentrancy ==
    /\ [](\A c \in Calls : AsAlone(c))
    /\ [][OneCallPerStep]_vars

\* Both calls under way at once, on different tables, each with its own KPI.
C17_Witness ==
    /\ pc[1] = "compute_vat"
    /\ pc[2] = "estimate"
    /\ table[1] # table[2]
    /\ kpi[1].revenue # kpi[2].revenue

----------------------------------------------------------------------------
(* C18  A configuration document without pcg_mapping, vat or cit makes the *)
(* call fail on the missing section; no AnalysisResult is assembled, from  *)
(* substitute values or otherwise.                                         *)

LacksSection == \E k \in {"pcg_mapping", "vat", "cit"} : k \notin DOMAIN params

\* C18: with a section missing (and a table that passes normalization) the
\* call never gets past the step that reads the section, it ends with the
\* exception of the lookup, and no tax estimate, suggestion or warning is
\* produced.
C18_MissingSectionFails ==
    (LacksSection /\ ~LacksRequiredColumn) =>
        /\ pc \notin {"suggestions", "done"}
        /\ pc = "estimate" => "pcg_mapping" \in DOMAIN params
        /\ pc = "compute_vat" => {"pcg_mapping", "cit"} \subseteq DOMAIN params
        /\ pc = "failed" => raised = Some("KeyError")
        /\ tax = None /\ suggs = None /\ warnings = None

\* The document without the vat section: the call fails after the KPI and
\* the tax amounts were computed, and returns nothing.
C18_Witness ==
    /\ pc = "failed"
    /\ "vat" \notin DOMAIN params
    /\ raised = Some("KeyError")
    /\ Len(table.rows) > 0
    /\ tax_dict # None

----------------------------------------------------------------------------
(* C19  Every threshold and rate estimate computes with comes from the cit *)
(* section it was given.                                                   *)

CitKeys == DOMAIN params["cit"]

\* C19, as claimed: a tax base or a surtax that is not 0 was computed with
\* constants that the cit section contains.
C19_AsClaimed ==
    pc = "returned" =>
        /\ tax_dict.details.standard_base > 0 => "standard_rate" \in CitKeys
        /\ tax_dict.details.reduced_base > 0 =>
              {"sme_turnover_ceiling", "sme_reduced_threshold",
               "sme_reduced_rate"} \subseteq CitKeys
        /\ tax_dict.social_contribution_on_cit # 0 =>
              {"social_contribution_rate",
               "social_contribution_turnover_threshold",
               "social_contribution_allowance"} \subseteq CitKeys

----------------------------------------------------------------------------
(* C20  Normalization coerces leniently: a debit or credit cell that does  *)
(* not parse as a number (a missing value included) becomes 0 without an   *)
(* exception, a cell that parses keeps its value, and every normalized row *)
(* has balance = debit - credit.                                           *)

\* the number a raw cell stands for, 0 when it does not parse
Coerced(cell) == IF cell = << >> THEN 0 ELSE cell[1]

\* C20: once a table with the required columns is normalized, it has one
\* row per input row, with the coerced debit and credit and their
\* difference as balance, and normalization has not raised.
C20_LenientCoercion ==
    (~LacksRequiredColumn /\ pc # "normalize") =>
        /\ raised # Some("ValueError")
        /\ Len(df) = Len(table.rows)
        /\ \A i \in 1 .. Len(df) :
              /\ df[i].debit = Coerced(table.rows[i].debit)
              /\ df[i].credit = Coerced(table.rows[i].credit)
              /\ df[i].balance = df[i].debit - df[i].credit

\* A table with a debit cell and a credit cell that do not parse, after
\* normalization: the rows are kept, with 0 in these cells.
C20_Witness ==
    /\ pc = "compute_kpi"
    /\ Len(table.rows) = 2
    /\ IsNone(table.rows[1].debit)
    /\ IsNone(table.rows[2].credit)
    /\ df[1].debit = 0
    /\ df[2].balance = 450

----------------------------------------------------------------------------
(* C21  After normalize_trial_balance every account is a non-empty string  *)
(* without leading or trailing whitespace.                                 *)

\* no blank at either end
Trimmed(a) == a = << >> \/ (a[1] # " " /\ a[Len(a)] # " ")

\* C21, as claimed: every normalized account is trimmed and non-empty.
C21_AsClaimed ==
    pc = "returned" =>
        \A i \in 1 .. Len(df) : Trimmed(df[i].account) /\ df[i].account # << >>

----------------------------------------------------------------------------
(* C22  analyze_trial_balance leaves the caller's table as it was, whether *)
(* the call succeeds or fails: trimming, coercion and the balance column   *)
(* go to a private copy.                                                   *)

\* C22: no step of the call changes the columns or the cells of the input
\* table.
C22_InputUnchanged == [][table' = table]_vars

\* A call that returned on a table with an untrimmed account and a cell
\* that does not parse: the copy was trimmed and coerced, the input still
\* holds the raw cells and has no balance column.
C22_Witness ==
    /\ pc = "done"
    /\ Len(table.rows) = 2
    /\ table.rows[1].account = <<" ", "7", "0", "6", " ">>
    /\ df[1].account = <<"7", "0", "6">>
    /\ IsNone(table.rows[2].debit)
    /\ df[2].debit = 0
    /\ "balance" \notin table.columns

----------------------------------------------------------------------------
(* C23  The orchestrator runs the tax engine on kpi.net_result, after the  *)
(* KPI step and before the advisory rules, and assembles the result from   *)
(* these very values.                                                      *)

\* the steps of the call, in the order of the code
StepOrder ==
    /\ pc \in {"normalize", "compute_kpi"} => kpi = None /\ tax_dict = None
    /\ pc = "estimate" => kpi # None /\ tax_dict = None /\ suggs = None
    /\ pc \in {"compute_vat", "suggestions"} =>
          kpi # None /\ tax_dict # None /\ suggs = None

\* C23: the KPI exists before the engine runs and the engine's result before
\* the rules; in a returned result the tax estimate carries kpi.net_result,
\* the turnover passed in, the engine's amounts for that profit and
\* compute_vat's balance for the same rows, and the suggestions are those of
\* this kpi and this tax.
C23_OrchestratorOrder ==
    /\ StepOrder
    /\ pc = "done" =>
          /\ tax.profit_before_tax = kpi.net_result
          /\ tax.turnover = turnover
          /\ tax.corporate_income_tax =
                estimate(kpi.net_result, turnover, params).corporate_income_tax
          /\ tax.social_contribution_on_cit =
                estimate(kpi.net_result, turnover,
                         params).social_contribution_on_cit
          /\ tax.vat_balance = compute_vat(df, params)
          /\ suggs = suggestions(kpi, tax, components)

\* A returned result with a turnover, a taxed profit that differs from the
\* EBITDA, and a suggestion.
C23_Witness ==
    /\ pc = "done"
    /\ ~IsNone(turnover)
    /\ kpi.net_result # kpi.ebitda_approx
    /\ tax.corporate_income_tax > 0
    /\ Len(suggs) > 0

----------------------------------------------------------------------------
(* C24  The tax bases in the details of estimate, for a non-negative       *)
(* reduced-rate cap.  The engine computes on floats: standard_base is the  *)
(* rounded difference profit - reduced_base, so adding reduced_base back   *)
(* does not always give the profit again.                                  *)

\* x is a float: a significand of FloatBits bits times a power of two
IsFloat(x) ==
    \E e \in 0 .. 8 : \E m \in 0 .. (Pow2(FloatBits) - 1) :
        Abs(x) = m * Pow2(e)

\* out is a float nearest to the exact amount x >= 0
NearestFloat(out, x) ==
    /\ IsFloat(out)
    /\ \A f \in 0 .. (2 * x + 1) : IsFloat(f) => Abs(f - x) >= Abs(out - x)

\* C24, as claimed: reduced_base + standard_base == max(0, profit), both
\* bases non-negative, reduced_base at most the cap and 0 unless eligible.
C24_AsClaimed ==
    (pc = "returned" /\ CfgReducedCap >= 0) =>
        LET profit == IF profit_before_tax > 0 THEN profit_before_tax ELSE 0
            rb == tax_dict.details.reduced_base
            sb == tax_dict.details.standard_base
        IN  /\ FloatRound(Rat(rb + sb, 1)) = profit
            /\ rb >= 0 /\ sb >= 0 /\ rb <= CfgReducedCap
            /\ tax_dict.eligible_sme_reduced_rate # Some(TRUE) => rb = 0

\* C24: both bases are non-negative, reduced_base is at most the cap and 0
\* unless eligible, and standard_base is the float nearest to
\* max(0, profit) - reduced_base; the two bases add up to the profit exactly
\* whenever that difference is itself a float.
C24_DetailsBases ==
    (pc = "returned" /\ CfgReducedCap >= 0) =>
        LET profit == IF profit_before_tax > 0 THEN profit_before_tax ELSE 0
            rb == tax_dict.details.reduced_base
            sb == tax_dict.details.standard_base
        IN  /\ NearestFloat(sb, profit - rb)
            /\ IsFloat(profit - rb) => rb + sb = profit
            /\ rb >= 0 /\ sb >= 0 /\ rb <= CfgReducedCap
            /\ tax_dict.eligible_sme_reduced_rate # Some(TRUE) => rb = 0

\* An eligible company whose profit above the cap is not a float: the bases
\* do not add up to the profit.
C24_Witness ==
    /\ pc = "returned"
    /\ CfgReducedCap > 0
    /\ tax_dict.eligible_sme_reduced_rate = Some(TRUE)
    /\ tax_dict.details.reduced_base = CfgReducedCap
    /\ tax_dict.details.reduced_base + tax_dict.details.standard_base
          # profit_before_tax

----------------------------------------------------------------------------
(* C25  With the turnover and the configuration fixed and the rates        *)
(* non-negative, the tax and the surtax never decrease when the profit     *)
(* grows.                                                                  *)

NonNegativeRates ==
    CfgStandardRate.n >= 0 /\ CfgReducedRate.n >= 0 /\ CfgScRate.n >= 0

\* the profits the call is compared with: those of its input family
ComparedProfits ==
    IF params["cit"] \in DefaultCits THEN DefaultProfits ELSE SmallProfits

\* C25: a call with a lower profit, the same turnover and the same
\* configuration returns a tax and a surtax that are not higher.
C25_MonotoneInProfit ==
    (pc = "returned" /\ NonNegativeRates) =>
        \A q \in ComparedProfits :
            q <= profit_before_tax =>
                LET lower == estimate(q, turnover, params)
                IN  /\ lower.corporate_income_tax
                          <= tax_dict.corporate_income_tax
                    /\ lower.social_contribution_on_cit
                          <= tax_dict.social_contribution_on_cit

\* A call with a surtax, above a lower profit whose tax and surtax are both
\* positive and strictly lower.
C25_Witness ==
    /\ pc = "returned"
    /\ NonNegativeRates
    /\ \E q \in ComparedProfits :
          LET lower == estimate(q, turnover, params)
          IN  /\ q < profit_before_tax
              /\ 0 < lower.social_contribution_on_cit
              /\ lower.social_contribution_on_cit
                    < tax_dict.social_contribution_on_cit
              /\ lower.corporate_income_tax < tax_dict.corporate_income_tax

----------------------------------------------------------------------------
(* C26  With 0 <= reduced_rate <= standard_rate and a cap >= 0, being      *)
(* eligible never costs tax, and saves at most                             *)
(* cap * (standard_rate - reduced_rate).  The amounts returned are rounded *)
(* to the cent, each on its own, so the returned saving can exceed that    *)
(* bound by the rounding.                                                  *)

OrderedRatesAndCap ==
    /\ CfgReducedRate.n >= 0
    /\ CfgReducedRate.n * CfgStandardRate.d <= CfgStandardRate.n * CfgReducedRate.d
    /\ CfgReducedCap >= 0

\* the common denominator of the two rates
RateDen == LCM(CfgReducedRate.d, CfgStandardRate.d)

\* RateDen * cap * (standard_rate - reduced_rate)
SavingBoundNum ==
    CfgReducedCap * (CfgStandardRate.n * (RateDen \div CfgStandardRate.d)
                       - CfgReducedRate.n * (RateDen \div CfgReducedRate.d))

\* RateDen * profit * standard_rate: the tax without the reduced rate, exact
FullRateCitNum ==
    (IF profit_before_tax > 0 THEN profit_before_tax ELSE 0)
        * CfgStandardRate.n * (RateDen \div CfgStandardRate.d)

\* the same call with an unknown turnover, and with one above the ceiling
UnknownTurnoverCall == estimate(profit_before_tax, None, params)

AboveCeilingCall == estimate(profit_before_tax, Some(CfgCeiling + 1), params)

EligibleCall ==
    /\ pc = "returned"
    /\ tax_dict.eligible_sme_reduced_rate = Some(TRUE)
    /\ OrderedRatesAndCap

----------------------------------------------------------------------------
(* C27  Whenever WCR_HIGH is emitted the working capital need is strictly  *)
(* positive: receivables exceed payables, as the rationale text says.      *)

\* C27, as claimed.
C27_AsClaimed ==
    (pc = "returned" /\ Emitted("WCR_HIGH")) => kpi.working_capital_need > 0

----------------------------------------------------------------------------
(* C28  POST /analyze/json answers as POST /analyze/trial-balance does for *)
(* the same rows and turnover; in particular a well-formed JSON payload is *)
(* answered with an AnalysisResult (status 200), not with an error.        *)

\* the payload holds a table with the three required columns, and the
\* configuration is the shipped one
WellFormedPayload ==
    /\ ~IsNone(payload.trial_balance)
    /\ \A c \in {"account", "debit", "credit"} :
          c \in {LowerStrip(h) : h \in Val(payload.trial_balance).columns}
    /\ params = ParamsDefault

\* C28, as claimed: the answer to a well-formed payload is the 200 that the
\* upload endpoint gives for the same table.
C28_AsClaimed ==
    (pc = "responded" /\ WellFormedPayload) => response = Some(200)

----------------------------------------------------------------------------
(* C29  Under a clock that never goes back: the first throttle call of a   *)
(* company is accepted; a call is accepted exactly when at least the       *)
(* interval has passed since the company's last accepted call, whose time  *)
(* is what _last_call records; a rejected call leaves every recorded time  *)
(* as it was; and a call changes nothing recorded for another company.     *)

\* the step is a call of throttle that ends accepted, or rejected
ThrottleAccepts == pc = "throttle" /\ pc' = "accepted"

ThrottleRejects == pc = "throttle" /\ pc' = "rejected"

\* the company was never seen by throttle
FirstCall == Val(company_id) \notin DOMAIN _last_call

\* at least 2 s (4 half seconds) since the recorded time of the company
IntervalElapsed == now - _last_call[Val(company_id)] >= 4

C29_ThrottleStep ==
    /\ (ThrottleAccepts \/ ThrottleRejects) =>
          \A c \in Cids \ {Val(company_id)} :
              /\ (c \in DOMAIN _last_call') = (c \in DOMAIN _last_call)
              /\ c \in DOMAIN _last_call => _last_call'[c] = _last_call[c]
    /\ (pc = "throttle" /\ pc' # pc /\ FirstCall) => ThrottleAccepts
    /\ (pc = "throttle" /\ pc' # pc /\ ~FirstCall) =>
          (ThrottleAccepts <=> IntervalElapsed)
    /\ ThrottleAccepts =>
          /\ _last_call'[Val(company_id)] = now
          /\ response' = None
    /\ ThrottleRejects =>
          /\ _last_call' = _last_call
          /\ response' = Some(429)
    /\ ~(ThrottleAccepts \/ ThrottleRejects) => _last_call' = _last_call
    /\ now' >= now

C29_Throttle == [][C29_ThrottleStep]_vars

\* Company a has just been rejected, while company b was accepted after a's
\* last accepted call.
C29_Witness ==
    /\ pc = "rejected"
    /\ company_id = Some("a")
    /\ DOMAIN _last_call = {"a", "b"}
    /\ _last_call["b"] > _last_call["a"]
    /\ now > _last_call["a"]

----------------------------------------------------------------------------
(* C30  call_openai_with_retry ends, after at most max_retries requests:   *)
(* with the reply at the first 200, with a 502 error at the first response *)
(* that is neither 200 nor 429 and without another request, and with a 429 *)
(* error after max_retries responses 429 in a row; it waits only after a   *)
(* 429, 1.5 s the first time and twice the previous wait afterwards.       *)

RetryEnded == pc \in {"returned", "raised"}

\* The requests sent so far: one for each wait (a wait follows a 429), and
\* the one in flight or the one whose response ended the call.
RequestsSent ==
    Len(sleeps)
      + (IF pc = "await_post"
            \/ (RetryEnded /\ ~IsNone(status_code) /\ status_code # Some(429))
            \/ raised = Some("httpx.TransportError")
         THEN 1 ELSE 0)

\* the waits are 1.5 s, 3 s, 6 s, ... (3, 6, 12, ... half seconds)
DoublingWaits == \A i \in 1 .. Len(sleeps) : sleeps[i] = 3 * Pow2(i - 1)

RetryOutcome ==
    /\ RequestsSent <= max_retries
    /\ DoublingWaits
    /\ pc = "returned" => (status_code = Some(200) /\ response = Some(200))
    /\ status_code = Some(200) => pc = "returned"
    /\ (~IsNone(status_code) /\ status_code \notin {Some(200), Some(429)}) =>
          (pc = "raised" /\ response = Some(502))
    /\ response = Some(502) => status_code \notin {Some(200), Some(429)}
    /\ response = Some(429) =>
          (pc = "raised" /\ Len(sleeps) = max_retries
             /\ (max_retries > 0 => status_code = Some(429)))
    /\ (pc = "raised" /\ raised = Some("HTTPException")) =>
          response \in {Some(429), Some(502)}

\* a wait starts only at a response 429, and nothing follows the end
RetryStep ==
    /\ ~RetryEnded
    /\ sleeps' # sleeps =>
          (pc = "await_post" /\ status_code' = Some(429)
             /\ Len(sleeps') = Len(sleeps) + 1)
    /\ (pc = "post" /\ pc' # pc) => Len(sleeps) = Val(attempt)

C30_RetryTerminates == [](RetryOutcome) /\ [][RetryStep]_vars /\ <>RetryEnded

\* Four responses 429 in a row with max_retries = 4: the waits were 1.5 s,
\* 3 s, 6 s and 12 s, and the call ended with the 429 error.
C30_Witness ==
    /\ pc = "raised"
    /\ max_retries = 4
    /\ response = Some(429)
    /\ sleeps = <<3, 6, 12, 24>>

============================================================================
